---- MODULE Spec2Model ----
(***************************************************************************)
(* A model of the Bitcoin last-traded-price service: the pair resolver,    *)
(* the Redis-backed price cache, the Kraken quote source and the batch     *)
(* loop of GetPrices, as driven by LTPHandler.                             *)
(*                                                                         *)
(* Strings are sequences of one-character strings, so that splitting,      *)
(* trimming and formatting are computed as the code computes them.  Time   *)
(* is the wall clock in whole seconds.  A handler invocation is cut into   *)
(* steps at the points where the code waits for the network: the Redis     *)
(* GET, the Kraken HTTP request, the Redis SET.                            *)
(***************************************************************************)
EXTENDS Integers, Sequences, FiniteSets, TLC

\* ------------------------------------------------------------------ bounds

\* The wall clock runs from 0 to MaxTime seconds.
MaxTime == 61

\* The clock advances by one of these amounts (seconds) at a time.
TickSteps == {30, 31}

\* The handler invocations, one per request received.
Handlers == {"h1"}

\* The longest "pairs" value the resolver is run on, in characters.
MaxLen == 4

\* The longest header value and remote address of a request, in characters.
MaxHeader == 3

\* The number of readiness probes followed.
MaxProbes == 2

\* ------------------------------------------------------------- strings

USD == <<"U", "S", "D">>
EUR == <<"E", "U", "R">>
CHF == <<"C", "H", "F">>

\* The values of the "pairs" query parameter that requests carry.
PairsInputs ==
    { <<>>,
      <<"B","T","C","/","U","S","D">>,
      <<"B","T","C","/","U","S","D",","," ","B","T","C","/","E","U","R">>,
      <<"B","T","C","/","U","S","D",",","B","T","C","/","U","S","D">>,
      <<"I","N","V","A","L","I","D">> }

\* The characters of the "pairs" values the resolver is run on: letters, the
\* slash, the comma, the space and the tab.
Alphabet == { "B", "U", "/", ",", " ", "\t" }

\* Every string over Alphabet of at most MaxLen characters.
ResolverInputs == UNION { [1..n -> Alphabet] : n \in 0..MaxLen }

\* The empty string, and the nil error (an error is its message).
Empty == <<>>
NilErr == <<>>

\* "BTC/" and "price:", the fixed parts of the pair name and of the cache key.
BTCSlash == <<"B", "T", "C", "/">>
PricePrefix == <<"p", "r", "i", "c", "e", ":">>

\* ------------------------------------------------------- pair resolver

\* trimSpaces: the two index loops; start and end are Go's 0-based indices.
RECURSIVE trimStart(_, _, _)
trimStart(s, start, end) ==
    IF start < end /\ s[start + 1] = " "
    THEN trimStart(s, start + 1, end)
    ELSE start

RECURSIVE trimEnd(_, _, _)
trimEnd(s, start, end) ==
    IF end > start /\ s[end] = " "
    THEN trimEnd(s, start, end - 1)
    ELSE end

trimSpaces(s) ==
    LET start == trimStart(s, 0, Len(s))
        end == trimEnd(s, start, Len(s))
    IN SubSeq(s, start + 1, end)

\* splitPairs, first loop: cut at every ','; a trailing piece is kept only
\* when it is not empty.
RECURSIVE splitLoop(_, _, _, _)
splitLoop(s, i, result, current) ==
    IF i > Len(s)
    THEN IF current # Empty THEN Append(result, current) ELSE result
    ELSE IF s[i] = ","
         THEN splitLoop(s, i + 1, Append(result, current), Empty)
         ELSE splitLoop(s, i + 1, result, Append(current, s[i]))

\* splitPairs, second loop: trim each piece and drop the empty ones.
RECURSIVE trimLoop(_, _, _)
trimLoop(result, i, pairs) ==
    IF i > Len(result)
    THEN pairs
    ELSE LET trimmed == trimSpaces(result[i])
         IN IF trimmed # Empty
            THEN trimLoop(result, i + 1, Append(pairs, trimmed))
            ELSE trimLoop(result, i + 1, pairs)

splitPairs(pairsParam) ==
    trimLoop(splitLoop(pairsParam, 1, <<>>, Empty), 1, <<>>)

\* extractCurrency: what follows the first '/' that has something after it;
\* i is Go's 0-based index.
RECURSIVE extractFrom(_, _)
extractFrom(pair, i) ==
    IF i >= Len(pair)
    THEN Empty
    ELSE IF pair[i + 1] = "/" /\ i + 1 < Len(pair)
         THEN SubSeq(pair, i + 2, Len(pair))
         ELSE extractFrom(pair, i + 1)

\* extractCurrency giving a currency only for a pair whose base is "BTC".
extractCurrency_RequireBTC(pair) ==
    IF Len(pair) >= 4 /\ SubSeq(pair, 1, 4) = <<"B", "T", "C", "/">>
    THEN extractFrom(pair, 0)
    ELSE <<>>

extractCurrency(pair) == extractFrom(pair, 0)

\* The loop of resolveCurrencies skipping a currency it already has.
RECURSIVE resolveLoop_Dedup(_, _, _)
resolveLoop_Dedup(pairs, i, currencies) ==
    IF i > Len(pairs)
    THEN currencies
    ELSE LET currency == extractCurrency(pairs[i])
         IN IF currency # Empty
               /\ \A k \in 1..Len(currencies) : currencies[k] # currency
            THEN resolveLoop_Dedup(pairs, i + 1, Append(currencies, currency))
            ELSE resolveLoop_Dedup(pairs, i + 1, currencies)

RECURSIVE resolveLoop(_, _, _)
resolveLoop(pairs, i, currencies) ==
    IF i > Len(pairs)
    THEN currencies
    ELSE LET currency == extractCurrency(pairs[i])
         IN IF currency # Empty
            THEN resolveLoop(pairs, i + 1, Append(currencies, currency))
            ELSE resolveLoop(pairs, i + 1, currencies)

\* resolveCurrencies with the default list in another order.
resolveCurrencies_DefaultReordered(pairsParam) ==
    IF pairsParam = Empty
    THEN <<USD, CHF, EUR>>
    ELSE resolveLoop(splitPairs(pairsParam), 1, <<>>)

\* resolveCurrencies falling back to the default list when no token yields a
\* currency.
resolveCurrencies_DefaultOnNone(pairsParam) ==
    IF resolveLoop(splitPairs(pairsParam), 1, <<>>) = <<>>
    THEN <<USD, EUR, CHF>>
    ELSE resolveLoop(splitPairs(pairsParam), 1, <<>>)

resolveCurrencies(pairsParam) ==
    IF pairsParam = Empty
    THEN <<USD, EUR, CHF>>
    ELSE resolveLoop(splitPairs(pairsParam), 1, <<>>)

\* ------------------------------------------------------ Kraken client

\* fmt.Sscanf(s, "%f", &price) on whole-number price strings: an optional
\* sign, then the longest run of digits; no digit at all is an error.
Digits == <<"0", "1", "2", "3", "4", "5", "6", "7", "8", "9">>

isDigit(c) == \E d \in 1..Len(Digits) : Digits[d] = c

digitVal(c) == (CHOOSE d \in 1..Len(Digits) : Digits[d] = c) - 1

RECURSIVE scanDigits(_, _, _, _)
scanDigits(s, i, acc, seen) ==
    IF i <= Len(s) /\ isDigit(s[i])
    THEN scanDigits(s, i + 1, acc * 10 + digitVal(s[i]), TRUE)
    ELSE [ok |-> seen, val |-> acc]

Sscanf(s) ==
    IF s # Empty /\ s[1] = "-"
    THEN LET r == scanDigits(s, 2, 0, FALSE) IN [ok |-> r.ok, val |-> 0 - r.val]
    ELSE scanDigits(s, 1, 0, FALSE)

\* What GetBTCPrice and fetchFromKraken return: (price, err).
Ret(price, err) == [price |-> price, err |-> err]

ErrRequest == <<"failed to make request">>
ErrParse == <<"failed to parse response">>
ErrKraken == <<"kraken API error">>
ErrPrice == <<"failed to parse price">>
ErrNoData == <<"no price data found">>

\* The pair identifier sent to Kraken: "XBT" followed by the currency.
krakenPair(currency) == <<"X", "B", "T">> \o currency

\* A Kraken HTTP exchange: whether the request completed, whether the body
\* is JSON of the expected shape, the "error" list, and the "result" map
\* from symbol to its "c" array.
KrakenResponse(sent, json, error, result) ==
    [sent |-> sent, json |-> json, error |-> error, result |-> result]

NoResult == [sym \in {} |-> <<>>]

\* The price strings the upstream source reports.
UpstreamPrices == { <<"1">>, <<"2">> }

\* The exchanges the model lets Kraken answer a request for `currency` with.
KrakenResponses(currency) ==
    { KrakenResponse(FALSE, FALSE, <<>>, NoResult),
      KrakenResponse(TRUE, TRUE, << <<"EQuery:Unknown asset pair">> >>, NoResult) }
    \cup { KrakenResponse(TRUE, TRUE, <<>>,
                          (krakenPair(currency) :> <<p, <<"0">> >>))
           : p \in UpstreamPrices }

\* The price strings of well-formed quotes: the upstream prices, zero, and
\* a negative number.
QuotedPrices == UpstreamPrices \cup { <<"0">>, <<"-", "1">> }

\* An exchange of every kind fetchFromKraken tells apart: no response, a body
\* that is not the expected JSON, an error list without and with a result
\* beside it, an empty result, a symbol with an empty "c" array, a price that
\* is not a number, a quote for each quoted price, and a result that holds
\* the quote of another pair beside the one asked for.
KrakenExchanges(currency) ==
    { KrakenResponse(FALSE, FALSE, <<>>, NoResult),
      KrakenResponse(TRUE, FALSE, <<>>, NoResult),
      KrakenResponse(TRUE, TRUE, << <<"EQuery:Unknown asset pair">> >>, NoResult),
      KrakenResponse(TRUE, TRUE, << <<"EGeneral:Internal error">> >>,
                     (krakenPair(currency) :> << <<"1">>, <<"0">> >>)),
      KrakenResponse(TRUE, TRUE, <<>>, NoResult),
      KrakenResponse(TRUE, TRUE, <<>>, (krakenPair(currency) :> <<>>)),
      KrakenResponse(TRUE, TRUE, <<>>,
                     (krakenPair(currency) :> << <<"a", "b", "c">>, <<"0">> >>)),
      KrakenResponse(TRUE, TRUE, <<>>,
                     (krakenPair(currency) :> << <<"1">>, <<"0">> >>)
                        @@ (krakenPair(IF currency = EUR THEN USD ELSE EUR)
                               :> << <<"2">>, <<"0">> >>)) }
    \cup { KrakenResponse(TRUE, TRUE, <<>>,
                          (krakenPair(currency) :> <<p, <<"0">> >>))
           : p \in QuotedPrices }

\* fetchFromKraken looking at the result before the error list.
fetchFromKraken_ResultFirst(resp) ==
    IF ~resp.sent THEN { Ret(0, ErrRequest) }
    ELSE IF ~resp.json THEN { Ret(0, ErrParse) }
    ELSE LET priced == { sym \in DOMAIN resp.result : Len(resp.result[sym]) > 0 }
         IN IF priced # {}
            THEN { LET scanned == Sscanf(resp.result[sym][1])
                   IN IF scanned.ok THEN Ret(scanned.val, NilErr)
                                    ELSE Ret(0, ErrPrice)
                   : sym \in priced }
            ELSE IF Len(resp.error) > 0 THEN { Ret(0, ErrKraken) }
            ELSE { Ret(0, ErrNoData) }

\* fetchFromKraken after the HTTP exchange: the set of (price, err) pairs it
\* can return.  Go ranges over the result map in no fixed order and returns
\* at the first symbol whose "c" array is not empty.
fetchFromKraken(resp) ==
    IF ~resp.sent THEN { Ret(0, ErrRequest) }
    ELSE IF ~resp.json THEN { Ret(0, ErrParse) }
    ELSE IF Len(resp.error) > 0 THEN { Ret(0, ErrKraken) }
    ELSE LET priced == { sym \in DOMAIN resp.result : Len(resp.result[sym]) > 0 }
         IN IF priced = {}
            THEN { Ret(0, ErrNoData) }
            ELSE { LET scanned == Sscanf(resp.result[sym][1])
                   IN IF scanned.ok THEN Ret(scanned.val, NilErr)
                                    ELSE Ret(0, ErrPrice)
                   : sym \in priced }


\* ------------------------------------------------------------- state

VARIABLES
    now,          \* the wall clock, in seconds
    redisClient,  \* clients.redisClient: "nil" until InitRedis, then "client"
    redisUp,      \* whether the Redis server answers
    store,        \* the Redis keyspace: key -> [data, expires, expireAt, by]
    writes,       \* history: the records saveToCache had the backend store,
                  \* in the order the backend applied them
    db,           \* database.db: "nil" until InitDB, then "open"
    dbUp,         \* whether the PostgreSQL server answers
    mainDb,       \* main's db, the handle InitDB returned: "nil" or "open"
    ready,        \* the answer of the latest readiness probe
    logQueue,     \* the RequestLog records held by running audit goroutines
    request_logs, \* the rows of table request_logs
    metrics,      \* the Prometheus counters GetBTCPrice increments
    batches,      \* the number of requests received so far
    pc,           \* per handler: "idle", "loop", "fetch", "save", "done";
                  \* "blocked" while http.Get waits for an answer
    requestID,    \* per handler: the ID the middleware put in the context
    pairsParam,   \* per handler: the "pairs" query parameter
    startTime,    \* per handler: LTPHandler's startTime
    r,            \* per handler: the request's address and headers
    currencies,   \* per handler: GetPrices' currencies
    idx,          \* per handler: the position of GetPrices' range loop
    prices,       \* per handler: GetPrices' prices
    errorsCount,  \* per handler: GetPrices' errorsCount
    lastError,    \* per handler: GetPrices' lastError
    price,        \* per handler: GetBTCPrice's price, once fetched
    result,       \* per handler: the PriceResult GetPrices returned
    response,     \* per handler: the status and body written
    cancelled,    \* per handler: whether the request's context is cancelled
    look,         \* history: what the lookup in progress has done so far
    trail         \* history: per handler, one entry per completed lookup

cacheVars == <<redisClient, redisUp, store, writes>>
auditVars == <<db, logQueue, request_logs>>
probeVars == <<dbUp, mainDb, ready>>
loopVars == <<currencies, idx, prices, errorsCount, lastError>>
reqVars == <<requestID, pairsParam, startTime, r, result, response, cancelled>>
vars == <<now, cacheVars, auditVars, probeVars, metrics, batches, pc, reqVars,
          loopVars, price, look, trail>>

\* ------------------------------------------------------- program constants

\* isCacheFresh: 60*time.Second.
FreshWindow == 60

\* saveToCache: the expiry given to redisClient.Set, 60*time.Second.
CacheTTL == 60

StatusOK == 200
StatusServiceUnavailable == 503

\* ------------------------------------------------------------ the cache

\* CachedPrice, and its JSON encoding as stored in Redis.
CachedPrice(p, timestamp) == [Price |-> p, Timestamp |-> timestamp]

NoCached == CachedPrice(0, 0)

Marshal(cached) ==
    [json |-> TRUE, price |-> cached.Price, timestamp |-> cached.Timestamp]

Garbage == [json |-> FALSE, price |-> 0, timestamp |-> 0]

ErrRedisNil == <<"redis: nil">>
ErrRedisConn == <<"dial tcp: connection refused">>
ErrUnmarshal == <<"failed to unmarshal cached data">>

\* cacheKey := fmt.Sprintf("price:%s", pair), pair := fmt.Sprintf("BTC/%s", currency)
pairName(currency) == BTCSlash \o currency

cacheKey(currency) == PricePrefix \o pairName(currency)

\* Whether the key is in the keyspace at this moment: a key that expires is
\* gone once its expiry has passed.
Visible(key) ==
    /\ key \in DOMAIN store
    /\ (store[key].expires => now <= store[key].expireAt)

\* redisClient.Get(ctx, key).Result().
RedisGet(key) ==
    IF ~redisUp
    THEN [val |-> Garbage, err |-> ErrRedisConn]
    ELSE IF ~Visible(key)
         THEN [val |-> Garbage, err |-> ErrRedisNil]
         ELSE [val |-> store[key].data, err |-> NilErr]

\* redisClient.Set(ctx, key, data, ttl): the keyspace after the write.  An
\* expiration of zero means the key does not expire.  The field "by" is
\* history: who wrote the key, this service ("app") or another client ("ext").
RedisSet(key, data, ttl, by) ==
    [k \in DOMAIN store \cup {key} |->
        IF k = key
        THEN [data |-> data, expires |-> ttl > 0,
              expireAt |-> IF ttl > 0 THEN now + ttl ELSE 0, by |-> by]
        ELSE store[k]]

getFromCache(key) ==
    LET got == RedisGet(key)
    IN IF got.err # NilErr
       THEN [cached |-> NoCached, err |-> got.err]
       ELSE IF ~got.val.json
            THEN [cached |-> NoCached, err |-> ErrUnmarshal]
            ELSE [cached |-> CachedPrice(got.val.price, got.val.timestamp),
                  err |-> NilErr]

\* isCacheFresh comparing milliseconds with the window in seconds.
isCacheFresh_Millis(cached) == (now - cached.Timestamp) * 1000 < FreshWindow

\* isCacheFresh with <= in place of <.
isCacheFresh_Inclusive(cached) == now - cached.Timestamp <= FreshWindow

isCacheFresh(cached) == now - cached.Timestamp < FreshWindow

\* saveToCache updating the price of a record the key already holds and
\* leaving that record's timestamp, rather than replacing the record.
saveToCache_PriceOnly(key, p) ==
    LET cached == IF key \in DOMAIN store /\ store[key].data.json
                  THEN CachedPrice(p, store[key].data.timestamp)
                  ELSE CachedPrice(p, now)
    IN IF redisUp
       THEN [store |-> RedisSet(key, Marshal(cached), CacheTTL, "app"),
             err |-> NilErr]
       ELSE [store |-> store, err |-> ErrRedisConn]

\* saveToCache passing 0 as the expiry, which Redis takes as no expiry.
saveToCache_NoExpiry(key, p) ==
    LET cached == CachedPrice(p, now)
    IN IF redisUp
       THEN [store |-> RedisSet(key, Marshal(cached), 0, "app"),
             err |-> NilErr]
       ELSE [store |-> store, err |-> ErrRedisConn]

\* saveToCache: the keyspace after it, and the error it returns.
saveToCache(key, p) ==
    LET cached == CachedPrice(p, now)
    IN IF redisUp
       THEN [store |-> RedisSet(key, Marshal(cached), CacheTTL, "app"),
             err |-> NilErr]
       ELSE [store |-> store, err |-> ErrRedisConn]

\* History of a write: the key, the encoded record saveToCache built from
\* the fetched price and the time of the call, and the time at which
\* fetchFromKraken had returned that price.
Written(key, p, at) ==
    [key |-> key, data |-> Marshal(CachedPrice(p, now)), obtained |-> at]

\* ------------------------------------------------------------ records

PairPrice(pair, amount) == [Pair |-> pair, Amount |-> amount]

PriceResult(ps, ec, kc, em) ==
    [Prices |-> ps, ErrorsCount |-> ec, KrakenCalls |-> kc, ErrorMessage |-> em]

NoResultYet == PriceResult(<<>>, 0, 0, Empty)

\* A slice that was declared with var and never appended to is nil; prices
\* is such a slice, so it is nil exactly when it has no element.
isNil(slice) == Len(slice) = 0

\* What LTPHandler writes: the status, and the body, in which encoding/json
\* puts null for "ltp" when the slice is nil and a list otherwise.
Response(status, ltp) == [status |-> status, ltp |-> ltp, null |-> isNil(ltp)]

NoResponse == Response(0, <<>>)

RequestLog(id, pairs, ip, status, ms, hit, calls, occurred, message) ==
    [RequestID |-> id, PairsRequested |-> pairs, UserIP |-> ip,
     StatusCode |-> status,
     ResponseTimeMs |-> ms, CacheHit |-> hit, KrakenCalls |-> calls,
     ErrorOccurred |-> occurred, ErrorMessage |-> message]

\* What getClientIP reads of the request: r.RemoteAddr and the headers
\* X-Forwarded-For and X-Real-IP, empty when absent.
Request(forwarded, realIP, remoteAddr) ==
    [XForwardedFor |-> forwarded, XRealIP |-> realIP, RemoteAddr |-> remoteAddr]

\* A request that came straight from the client, with no proxy header.
DirectRequest == Request(Empty, Empty, <<"1", ":", "2">>)

\* What ReadinessHandler writes: the status and the "status" and "error"
\* entries of the body.  The field "n" is history: how many probes were
\* answered so far.
Answer(n, code, status, error) ==
    [n |-> n, code |-> code, status |-> status, error |-> error]

NoAnswer == Answer(0, 0, "", "")

\* History of a completed lookup: the currency and what GetBTCPrice returned.
Lookup(currency, ret) == [currency |-> currency, ret |-> ret]

\* History of the latest lookup of a handler: what the cache read gave
\* ("none": not read yet, "nil": no client, "error", "absent", "stale",
\* "hit"), whether Kraken was called, how many HTTP requests were sent to it,
\* the exchange of the latest one and what fetchFromKraken returned, the time
\* at which it returned ("at", 0 before any request), and what the cache write
\* gave ("none", "nil": no client, "ok", "fail").
NoLook == [cache |-> "none", called |-> FALSE, requests |-> 0,
           resp |-> KrakenResponse(FALSE, FALSE, <<>>, NoResult),
           up |-> Ret(0, NilErr), at |-> 0, write |-> "none"]

Inc(counter) == [metrics EXCEPT ![counter] = @ + 1]

\* ------------------------------------------------------------- Init

Init ==
    /\ now = 0
    /\ redisClient = "nil"
    /\ redisUp = TRUE
    /\ store = [k \in {} |-> 0]
    /\ writes = <<>>
    /\ db = "nil"
    /\ dbUp = TRUE
    /\ mainDb = "nil"
    /\ ready = NoAnswer
    /\ logQueue = {}
    /\ request_logs = {}
    /\ metrics = [cache_hits_total |-> 0, cache_misses_total |-> 0,
                  kraken_api_calls_total |-> 0, kraken_api_errors_total |-> 0]
    /\ batches = 0
    /\ pc = [h \in Handlers |-> "idle"]
    /\ requestID = [h \in Handlers |-> 0]
    /\ pairsParam = [h \in Handlers |-> Empty]
    /\ startTime = [h \in Handlers |-> 0]
    /\ r = [h \in Handlers |-> DirectRequest]
    /\ currencies = [h \in Handlers |-> <<>>]
    /\ idx = [h \in Handlers |-> 1]
    /\ prices = [h \in Handlers |-> <<>>]
    /\ errorsCount = [h \in Handlers |-> 0]
    /\ lastError = [h \in Handlers |-> Empty]
    /\ price = [h \in Handlers |-> 0]
    /\ result = [h \in Handlers |-> NoResultYet]
    /\ response = [h \in Handlers |-> NoResponse]
    /\ cancelled = [h \in Handlers |-> FALSE]
    /\ look = [h \in Handlers |-> NoLook]
    /\ trail = [h \in Handlers |-> <<>>]

\* ----------------------------------------------------- the environment

\* The environment is followed for as long as a request can observe it.
Busy == \E h \in DOMAIN pc : pc[h] # "done"

\* Time passes.
Tick(d) ==
    /\ Busy
    /\ now + d <= MaxTime
    /\ now' = now + d
    /\ UNCHANGED <<cacheVars, auditVars, probeVars, metrics, batches, pc,
                   reqVars, loopVars, price, look, trail>>

\* The Redis server stops answering, or answers again.
RedisDown ==
    /\ Busy
    /\ redisUp
    /\ redisUp' = FALSE
    /\ UNCHANGED <<now, probeVars, redisClient, store, writes, auditVars, metrics, batches,
                   pc, reqVars, loopVars, price, look, trail>>

RedisBack ==
    /\ Busy
    /\ ~redisUp
    /\ redisUp' = TRUE
    /\ UNCHANGED <<now, probeVars, redisClient, store, writes, auditVars, metrics, batches,
                   pc, reqVars, loopVars, price, look, trail>>

\* The backend drops a key before its expiry (FlushDB, Expire, eviction).
Evict(key) ==
    /\ Busy
    /\ key \in DOMAIN store
    /\ store' = [k \in DOMAIN store \ {key} |-> store[k]]
    /\ UNCHANGED <<now, probeVars, redisClient, redisUp, writes, auditVars, metrics,
                   batches, pc, reqVars, loopVars, price, look, trail>>

\* What another client of the shared Redis may put, without expiry, under a
\* price key: bytes that are no CachedPrice, or a quote observed at time 0.
ExternalData == { Garbage, Marshal(CachedPrice(3, 0)) }

ExternalSet(key, data) ==
    /\ Busy
    /\ redisUp
    /\ store' = RedisSet(key, data, 0, "ext")
    /\ UNCHANGED <<now, probeVars, redisClient, redisUp, writes, auditVars, metrics,
                   batches, pc, reqVars, loopVars, price, look, trail>>

\* The PostgreSQL server stops answering, or answers again.
DbDown ==
    /\ Busy
    /\ dbUp
    /\ dbUp' = FALSE
    /\ UNCHANGED <<now, mainDb, ready, cacheVars, auditVars, metrics, batches,
                   pc, reqVars, loopVars, price, look, trail>>

DbBack ==
    /\ Busy
    /\ ~dbUp
    /\ dbUp' = TRUE
    /\ UNCHANGED <<now, mainDb, ready, cacheVars, auditVars, metrics, batches,
                   pc, reqVars, loopVars, price, look, trail>>

\* The client goes away while its request is being served: net/http cancels
\* the context of the request, the one LTPHandler hands to GetPrices.
Cancel(h) ==
    /\ pc[h] \in {"loop", "fetch", "save"}
    /\ ~cancelled[h]
    /\ cancelled' = [cancelled EXCEPT ![h] = TRUE]
    /\ UNCHANGED <<now, probeVars, cacheVars, auditVars, metrics, batches, pc, requestID,
                   pairsParam, startTime, r, result, response, loopVars,
                   price, look, trail>>

\* ------------------------------------------------------------ startup

\* InitRedis, called at startup, sets the package's client whether or not
\* the ping succeeds.
InitRedis ==
    /\ redisClient = "nil"
    /\ batches = 0
    /\ redisClient' = "client"
    /\ UNCHANGED <<now, probeVars, redisUp, store, writes, auditVars, metrics, batches, pc,
                   reqVars, loopVars, price, look, trail>>

\* InitDB, called at startup, sets the package's db as soon as sql.Open
\* succeeds, and returns it to main only when the ping succeeds too.
InitDB ==
    /\ db = "nil"
    /\ batches = 0
    /\ db' = "open"
    /\ mainDb' = IF dbUp THEN "open" ELSE "nil"
    /\ UNCHANGED <<now, dbUp, ready, cacheVars, logQueue, request_logs,
                   metrics, batches, pc, reqVars, loopVars, price, look, trail>>


\* --------------------------------------------------------- GetPrices

\* The error branch without errorsCount++.
GetPrices_onError_Uncounted(h, currency, err) ==
    /\ lastError' = [lastError EXCEPT ![h] = pairName(currency) \o <<":", " ">> \o err]
    /\ idx' = [idx EXCEPT ![h] = @ + 1]
    /\ UNCHANGED <<currencies, prices, errorsCount>>

\* The error branch with break in place of continue.
GetPrices_onError_Break(h, currency, err) ==
    /\ errorsCount' = [errorsCount EXCEPT ![h] = @ + 1]
    /\ lastError' = [lastError EXCEPT ![h] = pairName(currency) \o <<":", " ">> \o err]
    /\ idx' = [idx EXCEPT ![h] = Len(currencies[h]) + 1]
    /\ UNCHANGED <<currencies, prices>>

\* The error branch keeping the first message rather than the last.
GetPrices_onError_KeepFirst(h, currency, err) ==
    /\ errorsCount' = [errorsCount EXCEPT ![h] = @ + 1]
    /\ lastError' = [lastError EXCEPT ![h] =
                        IF @ = Empty
                        THEN pairName(currency) \o <<":", " ">> \o err
                        ELSE @]
    /\ idx' = [idx EXCEPT ![h] = @ + 1]
    /\ UNCHANGED <<currencies, prices>>

\* The loop body when GetBTCPrice returned an error: count it, keep its
\* message, continue with the next currency.
GetPrices_onError(h, currency, err) ==
    /\ errorsCount' = [errorsCount EXCEPT ![h] = @ + 1]
    /\ lastError' = [lastError EXCEPT ![h] = pairName(currency) \o <<":", " ">> \o err]
    /\ idx' = [idx EXCEPT ![h] = @ + 1]
    /\ UNCHANGED <<currencies, prices>>

\* The success branch putting the new entry in front.
GetPrices_onPrice_Prepend(h, currency, amount) ==
    /\ prices' = [prices EXCEPT ![h] = <<PairPrice(pairName(currency), amount)>> \o @]
    /\ idx' = [idx EXCEPT ![h] = @ + 1]
    /\ UNCHANGED <<currencies, errorsCount, lastError>>

\* The loop body when GetBTCPrice returned a price: append the entry.
GetPrices_onPrice(h, currency, amount) ==
    /\ prices' = [prices EXCEPT ![h] = Append(@, PairPrice(pairName(currency), amount))]
    /\ idx' = [idx EXCEPT ![h] = @ + 1]
    /\ UNCHANGED <<currencies, errorsCount, lastError>>

\* GetBTCPrice returns ret to the loop of GetPrices; the lookup is recorded.
Return(h, currency, write, ret, lk) ==
    /\ IF ret.err # NilErr
       THEN GetPrices_onError(h, currency, ret.err)
       ELSE GetPrices_onPrice(h, currency, ret.price)
    /\ pc' = [pc EXCEPT ![h] = "loop"]
    /\ price' = [price EXCEPT ![h] = 0]
    /\ look' = [look EXCEPT ![h] = [lk EXCEPT !.write = write]]
    /\ trail' = [trail EXCEPT ![h] = Append(@, Lookup(currency, ret))]

\* ------------------------------------------------------- GetBTCPrice

\* How the cache read of a lookup ended.
cacheOutcome(got) ==
    IF redisClient = "nil" THEN "nil"
    ELSE IF got.err = ErrRedisNil THEN "absent"
    ELSE IF got.err # NilErr THEN "error"
    ELSE IF isCacheFresh(got.cached) THEN "hit"
    ELSE "stale"

\* The cache check returning a cache read error to the caller.
GetBTCPrice_CheckCache_ErrOnRead(h) ==
    /\ pc[h] = "loop"
    /\ idx[h] <= Len(currencies[h])
    /\ LET currency == currencies[h][idx[h]]
           got == getFromCache(cacheKey(currency))
           lk == [NoLook EXCEPT !.cache = cacheOutcome(got)]
       IN IF redisClient # "nil" /\ got.err = NilErr /\ isCacheFresh(got.cached)
          THEN /\ metrics' = Inc("cache_hits_total")
               /\ Return(h, currency, "none", Ret(got.cached.Price, NilErr), lk)
          ELSE IF redisClient # "nil" /\ got.err \notin {NilErr, ErrRedisNil}
          THEN /\ metrics' = metrics
               /\ Return(h, currency, "none", Ret(0, got.err), lk)
          ELSE /\ metrics' = Inc("cache_misses_total")
               /\ pc' = [pc EXCEPT ![h] = "fetch"]
               /\ look' = [look EXCEPT ![h] = lk]
               /\ UNCHANGED <<loopVars, price, trail>>
    /\ UNCHANGED <<now, probeVars, cacheVars, auditVars, batches, reqVars>>

\* The cache check moving the loop on to the next currency, on a miss, while
\* the Kraken request for this one is still to be made.
GetBTCPrice_CheckCache_MovesOn(h) ==
    /\ pc[h] = "loop"
    /\ idx[h] <= Len(currencies[h])
    /\ LET currency == currencies[h][idx[h]]
           got == getFromCache(cacheKey(currency))
           lk == [NoLook EXCEPT !.cache = cacheOutcome(got)]
       IN IF redisClient # "nil" /\ got.err = NilErr /\ isCacheFresh(got.cached)
          THEN /\ metrics' = Inc("cache_hits_total")
               /\ Return(h, currency, "none", Ret(got.cached.Price, NilErr), lk)
          ELSE /\ metrics' = Inc("cache_misses_total")
               /\ pc' = [pc EXCEPT ![h] = "fetch"]
               /\ look' = [look EXCEPT ![h] = lk]
               /\ idx' = [idx EXCEPT ![h] =
                              IF @ < Len(currencies[h]) THEN @ + 1 ELSE @]
               /\ UNCHANGED <<currencies, prices, errorsCount, lastError,
                              price, trail>>
    /\ UNCHANGED <<now, probeVars, cacheVars, auditVars, batches, reqVars>>

\* The cache check writing the entry it serves back to the cache, which stamps
\* it anew and restarts its expiry.
GetBTCPrice_CheckCache_Touch(h) ==
    /\ pc[h] = "loop"
    /\ idx[h] <= Len(currencies[h])
    /\ LET currency == currencies[h][idx[h]]
           got == getFromCache(cacheKey(currency))
           lk == [NoLook EXCEPT !.cache = cacheOutcome(got)]
       IN IF redisClient # "nil" /\ got.err = NilErr /\ isCacheFresh(got.cached)
          THEN /\ metrics' = Inc("cache_hits_total")
               /\ store' = saveToCache(cacheKey(currency), got.cached.Price).store
               /\ Return(h, currency, "none", Ret(got.cached.Price, NilErr), lk)
          ELSE /\ metrics' = Inc("cache_misses_total")
               /\ store' = store
               /\ pc' = [pc EXCEPT ![h] = "fetch"]
               /\ look' = [look EXCEPT ![h] = lk]
               /\ UNCHANGED <<loopVars, price, trail>>
    /\ UNCHANGED <<now, probeVars, redisClient, redisUp, writes, auditVars,
                   batches, reqVars>>

\* The cache check of GetBTCPrice: a fresh entry is returned at once; anything
\* else counts a miss and goes on to Kraken.
GetBTCPrice_CheckCache(h) ==
    /\ pc[h] = "loop"
    /\ idx[h] <= Len(currencies[h])
    /\ LET currency == currencies[h][idx[h]]
           got == getFromCache(cacheKey(currency))
           lk == [NoLook EXCEPT !.cache = cacheOutcome(got)]
       IN IF redisClient # "nil" /\ got.err = NilErr /\ isCacheFresh(got.cached)
          THEN /\ metrics' = Inc("cache_hits_total")
               /\ Return(h, currency, "none", Ret(got.cached.Price, NilErr), lk)
          ELSE /\ metrics' = Inc("cache_misses_total")
               /\ pc' = [pc EXCEPT ![h] = "fetch"]
               /\ look' = [look EXCEPT ![h] = lk]
               /\ UNCHANGED <<loopVars, price, trail>>
    /\ UNCHANGED <<now, probeVars, cacheVars, auditVars, batches, reqVars>>

\* The Kraken request spared when another handler has just fetched the same
\* currency and is about to cache it: that handler's price is returned.
GetBTCPrice_Fetch_Shared(h, resp, ret) ==
    /\ pc[h] = "fetch"
    /\ LET currency == currencies[h][idx[h]]
           lk == [look[h] EXCEPT !.called = TRUE, !.requests = @ + 1,
                                 !.resp = resp, !.up = ret, !.at = now]
           others == { o \in DOMAIN pc \ {h} :
                          pc[o] = "save" /\ currencies[o][idx[o]] = currency }
       IN IF others # {}
          THEN /\ metrics' = metrics
               /\ Return(h, currency, "none",
                         Ret(price[CHOOSE o \in others : TRUE], NilErr), look[h])
          ELSE IF ret.err # NilErr
          THEN /\ metrics' = Inc("kraken_api_errors_total")
               /\ Return(h, currency, "none", Ret(0, ret.err), lk)
          ELSE /\ metrics' = Inc("kraken_api_calls_total")
               /\ IF redisClient # "nil"
                  THEN /\ pc' = [pc EXCEPT ![h] = "save"]
                       /\ price' = [price EXCEPT ![h] = ret.price]
                       /\ look' = [look EXCEPT ![h] = lk]
                       /\ UNCHANGED <<loopVars, trail>>
                  ELSE Return(h, currency, "nil", Ret(ret.price, NilErr), lk)
    /\ UNCHANGED <<now, probeVars, cacheVars, auditVars, batches, reqVars>>

\* The Kraken request made a second time when the first one fails.
GetBTCPrice_Fetch_RetryOnce(h, resp, ret) ==
    /\ pc[h] = "fetch"
    /\ LET currency == currencies[h][idx[h]]
           lk == [look[h] EXCEPT !.called = TRUE, !.requests = @ + 1,
                                 !.resp = resp, !.up = ret, !.at = now]
       IN IF ret.err # NilErr /\ look[h].requests = 0
          THEN /\ look' = [look EXCEPT ![h] = lk]
               /\ UNCHANGED <<metrics, pc, loopVars, price, trail>>
          ELSE IF ret.err # NilErr
          THEN /\ metrics' = Inc("kraken_api_errors_total")
               /\ Return(h, currency, "none", Ret(0, ret.err), lk)
          ELSE /\ metrics' = Inc("kraken_api_calls_total")
               /\ IF redisClient # "nil"
                  THEN /\ pc' = [pc EXCEPT ![h] = "save"]
                       /\ price' = [price EXCEPT ![h] = ret.price]
                       /\ look' = [look EXCEPT ![h] = lk]
                       /\ UNCHANGED <<loopVars, trail>>
                  ELSE Return(h, currency, "nil", Ret(ret.price, NilErr), lk)
    /\ UNCHANGED <<now, probeVars, cacheVars, auditVars, batches, reqVars>>

\* The Kraken request counted as a call whether or not it succeeds.
GetBTCPrice_Fetch_CountsAllCalls(h, resp, ret) ==
    /\ pc[h] = "fetch"
    /\ LET currency == currencies[h][idx[h]]
           lk == [look[h] EXCEPT !.called = TRUE, !.requests = @ + 1,
                                 !.resp = resp, !.up = ret, !.at = now]
       IN IF ret.err # NilErr
          THEN /\ metrics' = [metrics EXCEPT !.kraken_api_calls_total = @ + 1,
                                             !.kraken_api_errors_total = @ + 1]
               /\ Return(h, currency, "none", Ret(0, ret.err), lk)
          ELSE /\ metrics' = Inc("kraken_api_calls_total")
               /\ IF redisClient # "nil"
                  THEN /\ pc' = [pc EXCEPT ![h] = "save"]
                       /\ price' = [price EXCEPT ![h] = ret.price]
                       /\ look' = [look EXCEPT ![h] = lk]
                       /\ UNCHANGED <<loopVars, trail>>
                  ELSE Return(h, currency, "nil", Ret(ret.price, NilErr), lk)
    /\ UNCHANGED <<now, probeVars, cacheVars, auditVars, batches, reqVars>>

\* The failed Kraken request taking the entry under the key out of the cache.
GetBTCPrice_Fetch_DeleteOnError(h, resp, ret) ==
    /\ pc[h] = "fetch"
    /\ LET currency == currencies[h][idx[h]]
           lk == [look[h] EXCEPT !.called = TRUE, !.requests = @ + 1,
                                 !.resp = resp, !.up = ret, !.at = now]
       IN IF ret.err # NilErr
          THEN /\ metrics' = Inc("kraken_api_errors_total")
               /\ store' = [k \in DOMAIN store \ {cacheKey(currency)} |-> store[k]]
               /\ Return(h, currency, "none", Ret(0, ret.err), lk)
          ELSE /\ metrics' = Inc("kraken_api_calls_total")
               /\ store' = store
               /\ IF redisClient # "nil"
                  THEN /\ pc' = [pc EXCEPT ![h] = "save"]
                       /\ price' = [price EXCEPT ![h] = ret.price]
                       /\ look' = [look EXCEPT ![h] = lk]
                       /\ UNCHANGED <<loopVars, trail>>
                  ELSE Return(h, currency, "nil", Ret(ret.price, NilErr), lk)
    /\ UNCHANGED <<now, probeVars, redisClient, redisUp, writes, auditVars,
                   batches, reqVars>>

\* The Kraken request of GetBTCPrice and what follows it up to the cache
\* write: an error is returned; a price is kept for saveToCache, or returned
\* at once when there is no Redis client.
GetBTCPrice_Fetch(h, resp, ret) ==
    /\ pc[h] = "fetch"
    /\ LET currency == currencies[h][idx[h]]
           lk == [look[h] EXCEPT !.called = TRUE, !.requests = @ + 1,
                                 !.resp = resp, !.up = ret, !.at = now]
       IN IF ret.err # NilErr
          THEN /\ metrics' = Inc("kraken_api_errors_total")
               /\ Return(h, currency, "none", Ret(0, ret.err), lk)
          ELSE /\ metrics' = Inc("kraken_api_calls_total")
               /\ IF redisClient # "nil"
                  THEN /\ pc' = [pc EXCEPT ![h] = "save"]
                       /\ price' = [price EXCEPT ![h] = ret.price]
                       /\ look' = [look EXCEPT ![h] = lk]
                       /\ UNCHANGED <<loopVars, trail>>
                  ELSE Return(h, currency, "nil", Ret(ret.price, NilErr), lk)
    /\ UNCHANGED <<now, probeVars, cacheVars, auditVars, batches, reqVars>>

\* The Kraken request of GetBTCPrice when the server accepts it and never
\* answers: http.Get uses http.DefaultClient, whose Timeout is zero, so the
\* call does not return.
GetBTCPrice_FetchBlocks(h) ==
    /\ pc[h] = "fetch"
    /\ pc' = [pc EXCEPT ![h] = "blocked"]
    /\ UNCHANGED <<now, probeVars, cacheVars, auditVars, metrics, batches,
                   reqVars, loopVars, price, look, trail>>

\* The cache write returning its error to the caller.
GetBTCPrice_Save_FailOnWrite(h) ==
    /\ pc[h] = "save"
    /\ LET currency == currencies[h][idx[h]]
           saved == saveToCache(cacheKey(currency), price[h])
       IN /\ store' = saved.store
          /\ writes' = IF saved.err = NilErr
                       THEN Append(writes, Written(cacheKey(currency), price[h],
                                               look[h].at))
                       ELSE writes
          /\ IF saved.err = NilErr
             THEN Return(h, currency, "ok", Ret(price[h], NilErr), look[h])
             ELSE Return(h, currency, "fail", Ret(0, saved.err), look[h])
    /\ UNCHANGED <<now, probeVars, redisClient, redisUp, auditVars, metrics, batches, reqVars>>

\* The cache write of GetBTCPrice: its error is logged and dropped, and the
\* fetched price is returned.
GetBTCPrice_Save(h) ==
    /\ pc[h] = "save"
    /\ LET currency == currencies[h][idx[h]]
           saved == saveToCache(cacheKey(currency), price[h])
       IN /\ store' = saved.store
          /\ writes' = IF saved.err = NilErr
                       THEN Append(writes, Written(cacheKey(currency), price[h],
                                               look[h].at))
                       ELSE writes
          /\ Return(h, currency, IF saved.err = NilErr THEN "ok" ELSE "fail",
                    Ret(price[h], NilErr), look[h])
    /\ UNCHANGED <<now, probeVars, redisClient, redisUp, auditVars, metrics, batches, reqVars>>

\* -------------------------------------------------------- LTPHandler

\* strings.TrimSpace: leading and trailing white space removed.
WhiteSpace == { " ", "\t", "\n", "\r" }

RECURSIVE TrimSpace(_)
TrimSpace(s) ==
    IF s = Empty THEN s
    ELSE IF s[1] \in WhiteSpace THEN TrimSpace(SubSeq(s, 2, Len(s)))
    ELSE IF s[Len(s)] \in WhiteSpace THEN TrimSpace(SubSeq(s, 1, Len(s) - 1))
    ELSE s

\* strings.Split(s, sep)[0]: what precedes the first sep, all of s if none.
RECURSIVE SplitFirst(_, _)
SplitFirst(s, sep) ==
    IF s = Empty \/ s[1] = sep
    THEN Empty
    ELSE <<s[1]>> \o SplitFirst(SubSeq(s, 2, Len(s)), sep)

\* strings.LastIndex(s, c), 0-based; -1 when c is not in s.
LastIndex(s, c) ==
    IF \E i \in 1..Len(s) : s[i] = c
    THEN (CHOOSE i \in 1..Len(s) :
             s[i] = c /\ \A j \in (i + 1)..Len(s) : s[j] # c) - 1
    ELSE 0 - 1

\* getClientIP with X-Real-IP consulted before X-Forwarded-For.
getClientIP_RealIPFirst(req) ==
    IF req.XRealIP # Empty
    THEN req.XRealIP
    ELSE IF req.XForwardedFor # Empty
    THEN TrimSpace(SplitFirst(req.XForwardedFor, ","))
    ELSE LET colonIndex == LastIndex(req.RemoteAddr, ":")
         IN IF colonIndex # 0 - 1
            THEN SubSeq(req.RemoteAddr, 1, colonIndex)
            ELSE req.RemoteAddr

getClientIP(req) ==
    IF req.XForwardedFor # Empty
    THEN TrimSpace(SplitFirst(req.XForwardedFor, ","))
    ELSE IF req.XRealIP # Empty
    THEN req.XRealIP
    ELSE LET colonIndex == LastIndex(req.RemoteAddr, ":")
         IN IF colonIndex # 0 - 1
            THEN SubSeq(req.RemoteAddr, 1, colonIndex)
            ELSE req.RemoteAddr

\* The status with 503 for any error, partial failures included.
statusCode_AnyError(errorOccurred, successCount) ==
    IF errorOccurred THEN StatusServiceUnavailable ELSE StatusOK

\* The status LTPHandler chooses.
statusCode(errorOccurred, successCount) ==
    IF errorOccurred /\ successCount = 0
    THEN StatusServiceUnavailable
    ELSE StatusOK

\* The middleware taking the request ID from the clock.
LTPHandler_Start_IDFromClock(h, pairs) ==
    /\ pc[h] = "idle"
    /\ batches' = batches + 1
    /\ requestID' = [requestID EXCEPT ![h] = now + 1]
    /\ pairsParam' = [pairsParam EXCEPT ![h] = pairs]
    /\ startTime' = [startTime EXCEPT ![h] = now]
    /\ currencies' = [currencies EXCEPT ![h] = resolveCurrencies(pairs)]
    /\ idx' = [idx EXCEPT ![h] = 1]
    /\ prices' = [prices EXCEPT ![h] = <<>>]
    /\ errorsCount' = [errorsCount EXCEPT ![h] = 0]
    /\ lastError' = [lastError EXCEPT ![h] = Empty]
    /\ pc' = [pc EXCEPT ![h] = "loop"]
    /\ UNCHANGED <<now, probeVars, cacheVars, auditVars, metrics, r, result,
                   response, cancelled, price, look, trail>>

\* The middleware gives the request its ID; LTPHandler notes the time and
\* the pairs parameter; GetPrices resolves the currencies.
LTPHandler_Start(h, pairs) ==
    /\ pc[h] = "idle"
    /\ batches' = batches + 1
    /\ requestID' = [requestID EXCEPT ![h] = batches + 1]
    /\ pairsParam' = [pairsParam EXCEPT ![h] = pairs]
    /\ startTime' = [startTime EXCEPT ![h] = now]
    /\ currencies' = [currencies EXCEPT ![h] = resolveCurrencies(pairs)]
    /\ idx' = [idx EXCEPT ![h] = 1]
    /\ prices' = [prices EXCEPT ![h] = <<>>]
    /\ errorsCount' = [errorsCount EXCEPT ![h] = 0]
    /\ lastError' = [lastError EXCEPT ![h] = Empty]
    /\ pc' = [pc EXCEPT ![h] = "loop"]
    /\ UNCHANGED <<now, probeVars, cacheVars, auditVars, metrics, r, result,
                   response, cancelled, price, look, trail>>

\* LTPHandler waiting for the audit write and failing the request when the
\* database cannot take the record.
LTPHandler_Respond_AuditFirst(h) ==
    /\ pc[h] = "loop"
    /\ idx[h] > Len(currencies[h])
    /\ LET res == PriceResult(prices[h], errorsCount[h], Len(currencies[h]),
                              lastError[h])
           responseTime == (now - startTime[h]) * 1000
           totalRequests == res.KrakenCalls
           successCount == Len(res.Prices)
           errorOccurred == res.ErrorsCount > 0
           cacheHit == successCount > 0 /\ responseTime < 100
           status == IF db = "nil" \/ ~dbUp
                     THEN StatusServiceUnavailable
                     ELSE statusCode(errorOccurred, successCount)
       IN /\ result' = [result EXCEPT ![h] = res]
          /\ logQueue' = logQueue \cup
                { RequestLog(requestID[h], pairsParam[h], getClientIP(r[h]),
                             status, responseTime,
                             cacheHit, totalRequests, errorOccurred,
                             res.ErrorMessage) }
          /\ response' = [response EXCEPT ![h] = Response(status, res.Prices)]
    /\ pc' = [pc EXCEPT ![h] = "done"]
    /\ UNCHANGED <<now, probeVars, cacheVars, db, request_logs, metrics, batches,
                   requestID, pairsParam, startTime, r, cancelled, loopVars,
                   price, look, trail>>

\* LTPHandler recording an error only when every pair failed.
LTPHandler_Respond_AuditAllFailed(h) ==
    /\ pc[h] = "loop"
    /\ idx[h] > Len(currencies[h])
    /\ LET res == PriceResult(prices[h], errorsCount[h], Len(currencies[h]),
                              lastError[h])
           responseTime == (now - startTime[h]) * 1000
           totalRequests == res.KrakenCalls
           successCount == Len(res.Prices)
           errorOccurred == res.ErrorsCount > 0
           cacheHit == successCount > 0 /\ responseTime < 100
           status == statusCode(errorOccurred, successCount)
       IN /\ result' = [result EXCEPT ![h] = res]
          /\ logQueue' = logQueue \cup
                { RequestLog(requestID[h], pairsParam[h], getClientIP(r[h]),
                             status, responseTime,
                             cacheHit, totalRequests,
                             errorOccurred /\ successCount = 0,
                             res.ErrorMessage) }
          /\ response' = [response EXCEPT ![h] = Response(status, res.Prices)]
    /\ pc' = [pc EXCEPT ![h] = "done"]
    /\ UNCHANGED <<now, probeVars, cacheVars, db, request_logs, metrics, batches,
                   requestID, pairsParam, startTime, r, cancelled, loopVars,
                   price, look, trail>>

\* The loop of GetPrices is over: GetPrices returns its PriceResult, and
\* LTPHandler derives the status, starts the audit goroutine and writes the
\* response.
LTPHandler_Respond(h) ==
    /\ pc[h] = "loop"
    /\ idx[h] > Len(currencies[h])
    /\ LET res == PriceResult(prices[h], errorsCount[h], Len(currencies[h]),
                              lastError[h])
           responseTime == (now - startTime[h]) * 1000
           totalRequests == res.KrakenCalls
           successCount == Len(res.Prices)
           errorOccurred == res.ErrorsCount > 0
           cacheHit == successCount > 0 /\ responseTime < 100
           status == statusCode(errorOccurred, successCount)
       IN /\ result' = [result EXCEPT ![h] = res]
          /\ logQueue' = logQueue \cup
                { RequestLog(requestID[h], pairsParam[h], getClientIP(r[h]),
                             status, responseTime,
                             cacheHit, totalRequests, errorOccurred,
                             res.ErrorMessage) }
          /\ response' = [response EXCEPT ![h] = Response(status, res.Prices)]
    /\ pc' = [pc EXCEPT ![h] = "done"]
    /\ UNCHANGED <<now, probeVars, cacheVars, db, request_logs, metrics, batches,
                   requestID, pairsParam, startTime, r, cancelled, loopVars,
                   price, look, trail>>

\* The audit goroutine: database.LogRequest inserts the row unless the
\* database is not initialized or the insert fails.
LogRequest(reqLog, inserted) ==
    /\ reqLog \in logQueue
    /\ logQueue' = logQueue \ {reqLog}
    /\ request_logs' = IF db # "nil" /\ inserted
                       THEN request_logs \cup {reqLog}
                       ELSE request_logs
    /\ UNCHANGED <<now, probeVars, cacheVars, db, metrics, batches, pc, reqVars,
                   loopVars, price, look, trail>>

\* ReadinessHandler(db, redisClient), registered by main with the handles
\* InitDB and InitRedis returned: a handle that is nil is not pinged.
ReadinessHandler ==
    /\ redisClient = "client"
    /\ db = "open"
    /\ ready.n < MaxProbes
    /\ ready' = IF mainDb # "nil" /\ ~dbUp
                THEN Answer(ready.n + 1, StatusServiceUnavailable,
                            "not ready", "database unavailable")
                ELSE IF redisClient # "nil" /\ ~redisUp
                THEN Answer(ready.n + 1, StatusServiceUnavailable,
                            "not ready", "cache unavailable")
                ELSE Answer(ready.n + 1, StatusOK, "ready", "")
    /\ UNCHANGED <<now, dbUp, mainDb, cacheVars, auditVars, metrics, batches,
                   pc, reqVars, loopVars, price, look, trail>>

\* ------------------------------------------------------------- Next

\* The price keys other clients write to.
ExternalKeys == { cacheKey(USD) }

Next ==
    \/ \E d \in TickSteps : Tick(d)
    \/ RedisDown
    \/ RedisBack
    \/ \E key \in DOMAIN store : Evict(key)
    \/ \E key \in ExternalKeys, data \in ExternalData : ExternalSet(key, data)
    \/ InitRedis
    \/ \E h \in Handlers, pairs \in PairsInputs : LTPHandler_Start(h, pairs)
    \/ \E h \in Handlers : GetBTCPrice_CheckCache(h)
    \/ \E h \in Handlers :
         /\ pc[h] = "fetch"
         /\ \E resp \in KrakenResponses(currencies[h][idx[h]]) :
              \E ret \in fetchFromKraken(resp) : GetBTCPrice_Fetch(h, resp, ret)
    \/ \E h \in Handlers : GetBTCPrice_Save(h)
    \/ \E h \in Handlers : LTPHandler_Respond(h)
    \/ \E reqLog \in logQueue, inserted \in BOOLEAN : LogRequest(reqLog, inserted)

Spec == Init /\ [][Next]_vars

\* ------------------------------------------------- the resolver alone

\* Requests with every "pairs" value of ResolverInputs, followed up to the
\* resolution of the currencies, and to the response when no currency is
\* resolved and so no lookup is made.
ResolverNext ==
    \/ \E h \in Handlers, pairs \in ResolverInputs : LTPHandler_Start(h, pairs)
    \/ \E h \in Handlers : Len(currencies[h]) = 0 /\ LTPHandler_Respond(h)
    \/ \E reqLog \in logQueue, inserted \in BOOLEAN : LogRequest(reqLog, inserted)

ResolverSpec == Init /\ [][ResolverNext]_vars

\* ------------------------------------------------ the base of a pair

\* The bases and the quote currencies of the pairs asked for below.
Bases == { <<>>, <<"B", "T", "C">>, <<"E", "T", "H">> }
Quotes == { USD, EUR }

\* The "pairs" values of these requests: one pair "X/Q".
BaseInputs == { base \o <<"/">> \o quote : base \in Bases, quote \in Quotes }

\* One request for one pair, with or without a Redis client, as time passes.
BaseNext ==
    \/ \E d \in TickSteps : Tick(d)
    \/ InitRedis
    \/ \E h \in Handlers, pairs \in BaseInputs : LTPHandler_Start(h, pairs)
    \/ \E h \in Handlers : GetBTCPrice_CheckCache(h)
    \/ \E h \in Handlers :
         /\ pc[h] = "fetch"
         /\ \E resp \in KrakenResponses(currencies[h][idx[h]]) :
              \E ret \in fetchFromKraken(resp) : GetBTCPrice_Fetch(h, resp, ret)
    \/ \E h \in Handlers : GetBTCPrice_Save(h)
    \/ \E h \in Handlers : LTPHandler_Respond(h)
    \/ \E reqLog \in logQueue, inserted \in BOOLEAN : LogRequest(reqLog, inserted)

BaseSpec == Init /\ [][BaseNext]_vars

\* ------------------------------------------- every kind of Kraken answer

\* The "pairs" values of the requests below: none, and one pair.
UpstreamInputs == { <<>>, <<"B", "T", "C", "/", "U", "S", "D">> }

\* One request at a fixed time, with or without a Redis client, whose Kraken
\* requests are answered in every way fetchFromKraken tells apart.
UpstreamNext ==
    \/ InitRedis
    \/ \E h \in Handlers, pairs \in UpstreamInputs : LTPHandler_Start(h, pairs)
    \/ \E h \in Handlers : GetBTCPrice_CheckCache(h)
    \/ \E h \in Handlers :
         /\ pc[h] = "fetch"
         /\ \E resp \in KrakenExchanges(currencies[h][idx[h]]) :
              \E ret \in fetchFromKraken(resp) : GetBTCPrice_Fetch(h, resp, ret)
    \/ \E h \in Handlers : GetBTCPrice_Save(h)
    \/ \E h \in Handlers : LTPHandler_Respond(h)
    \/ \E reqLog \in logQueue, inserted \in BOOLEAN : LogRequest(reqLog, inserted)

UpstreamSpec == Init /\ [][UpstreamNext]_vars

\* ------------------------------------------- Redis down at startup

\* The service started while Redis was unreachable, so that the ping of
\* InitRedis failed; Redis may answer again later.
ColdNext ==
    \/ redisClient = "nil" /\ batches = 0 /\ RedisDown
    \/ ~redisUp /\ InitRedis
    \/ redisClient # "nil" /\ RedisBack
    \/ \E h \in Handlers, pairs \in UpstreamInputs : LTPHandler_Start(h, pairs)
    \/ \E h \in Handlers : GetBTCPrice_CheckCache(h)
    \/ \E h \in Handlers :
         /\ pc[h] = "fetch"
         /\ \E resp \in KrakenResponses(currencies[h][idx[h]]) :
              \E ret \in fetchFromKraken(resp) : GetBTCPrice_Fetch(h, resp, ret)
    \/ \E h \in Handlers : GetBTCPrice_Save(h)
    \/ \E h \in Handlers : LTPHandler_Respond(h)
    \/ \E reqLog \in logQueue, inserted \in BOOLEAN : LogRequest(reqLog, inserted)

ColdSpec == Init /\ [][ColdNext]_vars

\* ------------------------------------------------- concurrent requests

\* The handler invocations of requests served at the same time, each in its
\* own goroutine.
ConcHandlers == {"h1", "h2"}

\* The "pairs" value of these requests: the same pair, twice.
ConcInputs == { <<"B","T","C","/","U","S","D",",","B","T","C","/","U","S","D">> }

\* The service after startup, InitRedis done, with no request received yet.
ConcInit ==
    /\ now = 0
    /\ redisClient = "client"
    /\ redisUp = TRUE
    /\ store = [k \in {} |-> 0]
    /\ writes = <<>>
    /\ db = "nil"
    /\ dbUp = TRUE
    /\ mainDb = "nil"
    /\ ready = NoAnswer
    /\ logQueue = {}
    /\ request_logs = {}
    /\ metrics = [cache_hits_total |-> 0, cache_misses_total |-> 0,
                  kraken_api_calls_total |-> 0, kraken_api_errors_total |-> 0]
    /\ batches = 0
    /\ pc = [h \in ConcHandlers |-> "idle"]
    /\ requestID = [h \in ConcHandlers |-> 0]
    /\ pairsParam = [h \in ConcHandlers |-> Empty]
    /\ startTime = [h \in ConcHandlers |-> 0]
    /\ r = [h \in ConcHandlers |-> DirectRequest]
    /\ currencies = [h \in ConcHandlers |-> <<>>]
    /\ idx = [h \in ConcHandlers |-> 1]
    /\ prices = [h \in ConcHandlers |-> <<>>]
    /\ errorsCount = [h \in ConcHandlers |-> 0]
    /\ lastError = [h \in ConcHandlers |-> Empty]
    /\ price = [h \in ConcHandlers |-> 0]
    /\ result = [h \in ConcHandlers |-> NoResultYet]
    /\ response = [h \in ConcHandlers |-> NoResponse]
    /\ cancelled = [h \in ConcHandlers |-> FALSE]
    /\ look = [h \in ConcHandlers |-> NoLook]
    /\ trail = [h \in ConcHandlers |-> <<>>]

\* The steps of the handlers interleave in every way; time passes between
\* them.
ConcNext ==
    \/ \E d \in TickSteps : Tick(d)
    \/ \E h \in ConcHandlers, pairs \in ConcInputs : LTPHandler_Start(h, pairs)
    \/ \E h \in ConcHandlers : GetBTCPrice_CheckCache(h)
    \/ \E h \in ConcHandlers :
         /\ pc[h] = "fetch"
         /\ \E resp \in KrakenResponses(currencies[h][idx[h]]) :
              \E ret \in fetchFromKraken(resp) : GetBTCPrice_Fetch(h, resp, ret)
    \/ \E h \in ConcHandlers : GetBTCPrice_Save(h)
    \/ \E h \in ConcHandlers : LTPHandler_Respond(h)

ConcSpec == ConcInit /\ [][ConcNext]_vars

\* ------------------------------------------------ a client that goes away

\* One request at a fixed time whose context may be cancelled at any point
\* between its start and its response.
CancelNext ==
    \/ \E h \in Handlers : Cancel(h)
    \/ InitRedis
    \/ \E h \in Handlers, pairs \in UpstreamInputs : LTPHandler_Start(h, pairs)
    \/ \E h \in Handlers : GetBTCPrice_CheckCache(h)
    \/ \E h \in Handlers :
         /\ pc[h] = "fetch"
         /\ \E resp \in KrakenResponses(currencies[h][idx[h]]) :
              \E ret \in fetchFromKraken(resp) : GetBTCPrice_Fetch(h, resp, ret)
    \/ \E h \in Handlers : GetBTCPrice_Save(h)
    \/ \E h \in Handlers : LTPHandler_Respond(h)
    \/ \E reqLog \in logQueue, inserted \in BOOLEAN : LogRequest(reqLog, inserted)

CancelSpec == Init /\ [][CancelNext]_vars

\* ------------------------------------------------------ the audit trail

\* One request, served while the database comes and goes; the service was
\* started with or without InitDB, and an insert can fail.
AuditNext ==
    \/ DbDown
    \/ DbBack
    \/ InitRedis
    \/ InitDB
    \/ \E h \in Handlers, pairs \in UpstreamInputs : LTPHandler_Start(h, pairs)
    \/ \E h \in Handlers : GetBTCPrice_CheckCache(h)
    \/ \E h \in Handlers :
         /\ pc[h] = "fetch"
         /\ \E resp \in KrakenResponses(currencies[h][idx[h]]) :
              \E ret \in fetchFromKraken(resp) : GetBTCPrice_Fetch(h, resp, ret)
    \/ \E h \in Handlers : GetBTCPrice_Save(h)
    \/ \E h \in Handlers : LTPHandler_Respond(h)
    \/ \E reqLog \in logQueue, inserted \in BOOLEAN :
         (inserted => dbUp) /\ LogRequest(reqLog, inserted)

AuditSpec == Init /\ [][AuditNext]_vars

\* ------------------------------------------- requests and their records

\* The service after startup, InitRedis and InitDB done with both servers
\* reachable, and no request received yet.
ServingInit ==
    /\ now = 0
    /\ redisClient = "client"
    /\ redisUp = TRUE
    /\ store = [k \in {} |-> 0]
    /\ writes = <<>>
    /\ db = "open"
    /\ dbUp = TRUE
    /\ mainDb = "open"
    /\ ready = NoAnswer
    /\ logQueue = {}
    /\ request_logs = {}
    /\ metrics = [cache_hits_total |-> 0, cache_misses_total |-> 0,
                  kraken_api_calls_total |-> 0, kraken_api_errors_total |-> 0]
    /\ batches = 0
    /\ pc = [h \in ConcHandlers |-> "idle"]
    /\ requestID = [h \in ConcHandlers |-> 0]
    /\ pairsParam = [h \in ConcHandlers |-> Empty]
    /\ startTime = [h \in ConcHandlers |-> 0]
    /\ r = [h \in ConcHandlers |-> DirectRequest]
    /\ currencies = [h \in ConcHandlers |-> <<>>]
    /\ idx = [h \in ConcHandlers |-> 1]
    /\ prices = [h \in ConcHandlers |-> <<>>]
    /\ errorsCount = [h \in ConcHandlers |-> 0]
    /\ lastError = [h \in ConcHandlers |-> Empty]
    /\ price = [h \in ConcHandlers |-> 0]
    /\ result = [h \in ConcHandlers |-> NoResultYet]
    /\ response = [h \in ConcHandlers |-> NoResponse]
    /\ cancelled = [h \in ConcHandlers |-> FALSE]
    /\ look = [h \in ConcHandlers |-> NoLook]
    /\ trail = [h \in ConcHandlers |-> <<>>]

\* The "pairs" value of these requests: one pair.
ServingInputs == { <<"B", "T", "C", "/", "U", "S", "D">> }

\* The audit goroutines with the database taking every insert.
LogRequests == \E reqLog \in logQueue : LogRequest(reqLog, TRUE)

\* Requests served at the same time, each through LoggingMiddleware.
ServingNext ==
    \/ \E h \in ConcHandlers, pairs \in ServingInputs : LTPHandler_Start(h, pairs)
    \/ \E h \in ConcHandlers : GetBTCPrice_CheckCache(h)
    \/ \E h \in ConcHandlers :
         /\ pc[h] = "fetch"
         /\ \E resp \in KrakenResponses(currencies[h][idx[h]]) :
              \E ret \in fetchFromKraken(resp) : GetBTCPrice_Fetch(h, resp, ret)
    \/ \E h \in ConcHandlers : GetBTCPrice_Save(h)
    \/ \E h \in ConcHandlers : LTPHandler_Respond(h)
    \/ LogRequests

\* An audit goroutine, once started, runs to its end.
ServingSpec == ServingInit /\ [][ServingNext]_vars /\ WF_vars(LogRequests)

\* ------------------------------------------------ the client's address

\* Every string over the characters of chars of at most MaxHeader characters.
HeaderValues(chars) == UNION { [1..n -> chars] : n \in 0..MaxHeader }

\* The requests getClientIP is run on: X-Forwarded-For made of entries,
\* commas and spaces, X-Real-IP of an address and spaces, RemoteAddr of an
\* address and colons; each possibly empty.
ClientRequests ==
    { Request(forwarded, realIP, remoteAddr) :
        forwarded \in HeaderValues({"1", ",", " "}),
        realIP \in HeaderValues({"2", " "}),
        remoteAddr \in HeaderValues({"3", ":"}) }

\* The "pairs" value of these requests: one that resolves to no currency.
ClientInputs == { <<"I", "N", "V", "A", "L", "I", "D">> }

\* The service at startup, about to receive any one of the requests.
ClientInit ==
    /\ now = 0
    /\ redisClient = "nil"
    /\ redisUp = TRUE
    /\ store = [k \in {} |-> 0]
    /\ writes = <<>>
    /\ db = "nil"
    /\ dbUp = TRUE
    /\ mainDb = "nil"
    /\ ready = NoAnswer
    /\ logQueue = {}
    /\ request_logs = {}
    /\ metrics = [cache_hits_total |-> 0, cache_misses_total |-> 0,
                  kraken_api_calls_total |-> 0, kraken_api_errors_total |-> 0]
    /\ batches = 0
    /\ pc = [h \in Handlers |-> "idle"]
    /\ requestID = [h \in Handlers |-> 0]
    /\ pairsParam = [h \in Handlers |-> Empty]
    /\ startTime = [h \in Handlers |-> 0]
    /\ r \in [Handlers -> ClientRequests]
    /\ currencies = [h \in Handlers |-> <<>>]
    /\ idx = [h \in Handlers |-> 1]
    /\ prices = [h \in Handlers |-> <<>>]
    /\ errorsCount = [h \in Handlers |-> 0]
    /\ lastError = [h \in Handlers |-> Empty]
    /\ price = [h \in Handlers |-> 0]
    /\ result = [h \in Handlers |-> NoResultYet]
    /\ response = [h \in Handlers |-> NoResponse]
    /\ cancelled = [h \in Handlers |-> FALSE]
    /\ look = [h \in Handlers |-> NoLook]
    /\ trail = [h \in Handlers |-> <<>>]

ClientNext ==
    \/ InitDB
    \/ \E h \in Handlers, pairs \in ClientInputs : LTPHandler_Start(h, pairs)
    \/ \E h \in Handlers : LTPHandler_Respond(h)
    \/ \E reqLog \in logQueue, inserted \in BOOLEAN : LogRequest(reqLog, inserted)

ClientSpec == ClientInit /\ [][ClientNext]_vars

\* ------------------------------------------ an upstream that goes silent

\* The next step of the goroutine serving the request of h.
HandlerStep(h) ==
    \/ GetBTCPrice_CheckCache(h)
    \/ /\ pc[h] = "fetch"
       /\ \E resp \in KrakenResponses(currencies[h][idx[h]]) :
            \E ret \in fetchFromKraken(resp) : GetBTCPrice_Fetch(h, resp, ret)
    \/ GetBTCPrice_FetchBlocks(h)
    \/ GetBTCPrice_Save(h)
    \/ LTPHandler_Respond(h)

\* One request, served while Redis comes and goes and while Kraken answers,
\* fails, or accepts a request and stays silent.
HangNext ==
    \/ RedisDown
    \/ RedisBack
    \/ InitRedis
    \/ \E h \in Handlers, pairs \in UpstreamInputs : LTPHandler_Start(h, pairs)
    \/ \E h \in Handlers : HandlerStep(h)
    \/ \E reqLog \in logQueue, inserted \in BOOLEAN : LogRequest(reqLog, inserted)

\* The goroutine of a request keeps running for as long as it has a step to
\* take.
HangSpec ==
    /\ Init
    /\ [][HangNext]_vars
    /\ \A h \in Handlers : WF_vars(HandlerStep(h))

\* ------------------------------------------------- the readiness probe

\* The service starts while the database and Redis come and go, and is then
\* probed on /ready.
ReadyNext ==
    \/ \E d \in TickSteps : Tick(d)
    \/ DbDown
    \/ DbBack
    \/ RedisDown
    \/ RedisBack
    \/ InitRedis
    \/ InitDB
    \/ ReadinessHandler

ReadySpec == Init /\ [][ReadyNext]_vars


\* ------------------------------------------------------------ properties

Last(seq) == seq[Len(seq)]

Range(seq) == { seq[i] : i \in 1..Len(seq) }

Failed(lookup) == lookup.ret.err # NilErr

\* The response entries of the lookups of t that succeeded, in order.
RECURSIVE SuccessEntries(_)
SuccessEntries(t) ==
    IF t = <<>>
    THEN <<>>
    ELSE LET rest == SuccessEntries(SubSeq(t, 1, Len(t) - 1))
             l == Last(t)
         IN IF Failed(l)
            THEN rest
            ELSE Append(rest, [Pair |-> <<"B", "T", "C", "/">> \o l.currency,
                               Amount |-> l.ret.price])

NumFailed(t) == Cardinality({ i \in 1..Len(t) : Failed(t[i]) })

\* C1: the result of every batch has ErrorsCount + len(Prices) = KrakenCalls,
\* and KrakenCalls is the length of the resolved currency list.
C1_CountsAddUp ==
    \A h \in Handlers :
        pc[h] = "done" =>
            /\ result[h].ErrorsCount + Len(result[h].Prices) = result[h].KrakenCalls
            /\ result[h].KrakenCalls = Len(resolveCurrencies(pairsParam[h]))

\* A batch that ended with a success and a failure.
C1_Witness ==
    \E h \in Handlers :
        /\ pc[h] = "done"
        /\ result[h].ErrorsCount >= 1
        /\ Len(result[h].Prices) >= 1

\* C2: Prices is the resolved list restricted to the positions whose lookup
\* succeeded, in order, each entry with its own pair and price; when every
\* lookup succeeded it has the length of the list and ErrorsCount is 0.
C2_PricesAreTheSuccesses ==
    \A h \in Handlers :
        pc[h] = "done" =>
            /\ Len(trail[h]) = Len(currencies[h])
            /\ \A i \in 1..Len(trail[h]) : trail[h][i].currency = currencies[h][i]
            /\ result[h].Prices = SuccessEntries(trail[h])
            /\ (NumFailed(trail[h]) = 0 =>
                  /\ Len(result[h].Prices) = Len(currencies[h])
                  /\ result[h].ErrorsCount = 0)

\* A batch of three whose middle lookup failed and whose others succeeded
\* with different prices.
C2_Witness ==
    \E h \in Handlers :
        /\ pc[h] = "done"
        /\ Len(trail[h]) = 3
        /\ ~Failed(trail[h][1]) /\ Failed(trail[h][2]) /\ ~Failed(trail[h][3])
        /\ trail[h][1].ret.price # trail[h][3].ret.price

\* C3: a failed lookup never ends the batch: at every moment the lookups made
\* are those of a prefix of the resolved list, one per position, and when the
\* batch is over there was exactly one for each position.
C3_OneLookupPerPosition ==
    \A h \in Handlers :
        /\ Len(trail[h]) <= Len(currencies[h])
        /\ \A i \in 1..Len(trail[h]) : trail[h][i].currency = currencies[h][i]
        /\ pc[h] = "loop" => idx[h] = Len(trail[h]) + 1
        /\ pc[h] \in {"fetch", "save"} => idx[h] = Len(trail[h]) + 1
        /\ pc[h] = "done" => Len(trail[h]) = Len(currencies[h])

\* A batch of three in which the third lookup was made after the first two
\* had failed with errors of different kinds.
C3_Witness ==
    \E h \in Handlers :
        /\ pc[h] = "done"
        /\ Len(trail[h]) = 3
        /\ Failed(trail[h][1]) /\ Failed(trail[h][2])
        /\ trail[h][1].ret.err # trail[h][2].ret.err

\* C4: the status is 200 whenever at least one pair succeeded, 503 whenever
\* none did and at least one was attempted, and the body carries exactly the
\* successful entries.
C4_StatusFollowsSuccesses ==
    \A h \in Handlers :
        pc[h] = "done" =>
            /\ (Len(SuccessEntries(trail[h])) >= 1 => response[h].status = 200)
            /\ (Len(SuccessEntries(trail[h])) = 0 /\ Len(trail[h]) >= 1
                  => response[h].status = 503)
            /\ response[h].ltp = SuccessEntries(trail[h])

\* A partial failure answered with 200.
C4_Witness ==
    \E h \in Handlers :
        /\ pc[h] = "done"
        /\ NumFailed(trail[h]) >= 1
        /\ NumFailed(trail[h]) < Len(trail[h])
        /\ response[h].status = 200

\* C5: a non-empty pairs input whose every token is malformed resolves to no
\* currency, attempts nothing, and is answered like an all-failed batch, with
\* the service-failure status.
C5_AllMalformedIsServiceFailure ==
    \A h \in Handlers :
        (/\ pc[h] = "done"
         /\ pairsParam[h] # <<>>
         /\ resolveCurrencies(pairsParam[h]) = <<>>) =>
            /\ currencies[h] = <<>>
            /\ result[h].KrakenCalls = 0
            /\ response[h].status = 503


\* The key "price:BTC/<currency>", spelled out.
PriceKey(currency) ==
    <<"p", "r", "i", "c", "e", ":", "B", "T", "C", "/">> \o currency

\* The handler is about to read the cache for the currency at its position,
\* and this step is that read.
CacheReadStep(h) ==
    /\ pc[h] = "loop"
    /\ idx[h] <= Len(currencies[h])
    /\ (pc'[h] = "fetch" \/ idx'[h] = idx[h] + 1)

\* The step returned amount from the cache, without a request to Kraken.
ServedFromCache(h, amount) ==
    /\ pc'[h] = "loop"
    /\ Len(trail'[h]) = Len(trail[h]) + 1
    /\ Last(trail'[h]).ret = [price |-> amount, err |-> <<>>]
    /\ ~look'[h].called
    /\ metrics'.kraken_api_calls_total = metrics.kraken_api_calls_total
    /\ metrics'.kraken_api_errors_total = metrics.kraken_api_errors_total

\* C6: with the cache reachable, a lookup that finds the quote a lookup cached
\* at time T returns its price with no upstream call while now - T < 60, and
\* goes to the upstream source from T + 61 on.
C6_CachedQuoteServedWithinWindow ==
    [][\A h \in Handlers :
          LET key == PriceKey(currencies[h][idx[h]])
          IN (/\ CacheReadStep(h)
              /\ redisClient = "client"
              /\ redisUp
              /\ key \in DOMAIN store
              /\ store[key].by = "app") =>
                 /\ (now - store[key].data.timestamp < 60
                       => ServedFromCache(h, store[key].data.price))
                 /\ (now - store[key].data.timestamp >= 61
                       => pc'[h] = "fetch")]_vars

\* The second lookup of a currency was served, 30 s after the first lookup
\* cached the quote, with the price the first one fetched.
C6_Witness ==
    \E h \in Handlers :
        /\ Len(trail[h]) = 2
        /\ trail[h][1].currency = trail[h][2].currency
        /\ look[h].cache = "hit"
        /\ PriceKey(trail[h][2].currency) \in DOMAIN store
        /\ LET rec == store[PriceKey(trail[h][2].currency)]
           IN /\ rec.by = "app"
              /\ now - rec.data.timestamp = 30
              /\ trail[h][1].ret = [price |-> rec.data.price, err |-> <<>>]
              /\ trail[h][2].ret = [price |-> rec.data.price, err |-> <<>>]

\* C7: a lookup returns a cached price exactly when the backend read succeeds
\* and now - observedAt < 60, strictly; a stale entry the backend still holds
\* is not served, and an entry the backend no longer holds leads to an
\* upstream fetch.
C7_HitIffReadableAndFresh ==
    [][\A h \in Handlers :
          LET key == PriceKey(currencies[h][idx[h]])
              readable == /\ redisClient = "client"
                          /\ redisUp
                          /\ key \in DOMAIN store
                          /\ (store[key].expires => now <= store[key].expireAt)
                          /\ store[key].data.json
          IN CacheReadStep(h) =>
                IF readable /\ now - store[key].data.timestamp < 60
                THEN ServedFromCache(h, store[key].data.price)
                ELSE /\ pc'[h] = "fetch"
                     /\ trail'[h] = trail[h]
                     /\ prices'[h] = prices[h]]_vars

\* A lookup is on its way to Kraken although the backend holds, unexpired, a
\* well-formed quote for its key that is exactly 60 s old.
C7_Witness ==
    \E h \in Handlers :
        /\ pc[h] = "fetch"
        /\ look[h].cache = "stale"
        /\ redisUp
        /\ LET key == PriceKey(currencies[h][idx[h]])
           IN /\ key \in DOMAIN store
              /\ store[key].expires
              /\ now <= store[key].expireAt
              /\ store[key].data.json
              /\ now - store[key].data.timestamp = 60

\* The latest lookup of h is complete.
LookupComplete(h) ==
    /\ pc[h] \in {"loop", "done"}
    /\ look[h].cache # "none"
    /\ trail[h] # <<>>

\* C8: when the cache is uninitialized or unreachable, so that the read and
\* the write of a lookup both fail, the lookup calls the upstream source and
\* returns exactly what the upstream fetch returned, price or error.
C8_CacheOutageFallsThrough ==
    \A h \in Handlers :
        (/\ LookupComplete(h)
         /\ look[h].cache \in {"nil", "error"}
         /\ look[h].write \in {"nil", "fail", "none"}) =>
            /\ look[h].called
            /\ Last(trail[h]).ret = look[h].up
            /\ Last(trail[h]).ret.err \in
                  { <<>>, <<"failed to make request">>, <<"failed to parse response">>,
                    <<"kraken API error">>, <<"failed to parse price">>,
                    <<"no price data found">> }

\* With a client whose server does not answer, the same pair was looked up
\* twice and both lookups succeeded.
C8_Witness ==
    \E h \in Handlers :
        /\ pc[h] = "done"
        /\ redisClient = "client"
        /\ Len(trail[h]) = 2
        /\ trail[h][1].currency = trail[h][2].currency
        /\ ~Failed(trail[h][1]) /\ ~Failed(trail[h][2])
        /\ look[h].cache = "error"
        /\ look[h].write = "fail"
        /\ store = << >>

\* C9: when the cache write after a successful fetch fails, the lookup still
\* returns the fetched price without error, and the batch's error count is
\* what it was.
C9_WriteFailureIgnored ==
    [][\A h \in Handlers :
          (pc[h] = "save" /\ pc'[h] # "save" /\ ~redisUp) =>
              /\ look'[h].write = "fail"
              /\ Last(trail'[h]).ret = [price |-> price[h], err |-> <<>>]
              /\ prices'[h] = Append(prices[h],
                                     [Pair |-> <<"B", "T", "C", "/">> \o currencies[h][idx[h]],
                                      Amount |-> price[h]])
              /\ errorsCount'[h] = errorsCount[h]
              /\ lastError'[h] = lastError[h]]_vars

\* A batch is over without any error although a cache write failed.
C9_Witness ==
    \E h \in Handlers :
        /\ pc[h] = "done"
        /\ look[h].write = "fail"
        /\ look[h].up.err = <<>>
        /\ result[h].ErrorsCount = 0
        /\ Len(result[h].Prices) = Len(currencies[h])

\* C10: the cache write of a lookup for currency C puts under "price:BTC/C"
\* the fetched price with the write time and an expiry 60 s ahead, and leaves
\* every other key as it was; the other steps of a lookup write nothing.
C10_WriteTouchesOnlyItsKey ==
    [][\A h \in Handlers :
          /\ (pc[h] = "save" /\ pc'[h] # "save" /\ redisUp) =>
                LET key == PriceKey(currencies[h][idx[h]])
                IN /\ DOMAIN store' = DOMAIN store \cup {key}
                   /\ store'[key].data =
                         [json |-> TRUE, price |-> price[h], timestamp |-> now]
                   /\ store'[key].expires
                   /\ store'[key].expireAt - now' = 60
                   /\ \A k \in DOMAIN store' \ {key} : store'[k] = store[k]
          /\ (CacheReadStep(h) \/ (pc[h] = "fetch" /\ pc'[h] # "fetch")) =>
                store' = store]_vars

\* A lookup for EUR has just written its quote, next to a key that another
\* client wrote and that is as it was.
C10_Witness ==
    \E h \in Handlers :
        /\ look[h].write = "ok"
        /\ pc[h] = "loop"
        /\ Last(trail[h]).currency = <<"E", "U", "R">>
        /\ DOMAIN store = { PriceKey(<<"E", "U", "R">>), PriceKey(<<"U", "S", "D">>) }
        /\ store[PriceKey(<<"U", "S", "D">>)].by = "ext"
        /\ LET rec == store[PriceKey(<<"E", "U", "R">>)]
           IN /\ rec.data.price = Last(trail[h]).ret.price
              /\ rec.data.timestamp = now
              /\ rec.expires
              /\ rec.expireAt = now + 60

\* C13: an empty or absent pairs parameter resolves to USD, EUR, CHF in that
\* order, and the batch makes exactly three lookups, for these currencies.
C13_DefaultIsUsdEurChf ==
    \A h \in Handlers :
        (pc[h] # "idle" /\ pairsParam[h] = <<>>) =>
            /\ currencies[h] = << <<"U", "S", "D">>, <<"E", "U", "R">>, <<"C", "H", "F">> >>
            /\ Len(trail[h]) <= 3
            /\ pc[h] = "done" =>
                  /\ Len(trail[h]) = 3
                  /\ trail[h][1].currency = <<"U", "S", "D">>
                  /\ trail[h][2].currency = <<"E", "U", "R">>
                  /\ trail[h][3].currency = <<"C", "H", "F">>
                  /\ result[h].KrakenCalls = 3

\* A request without pairs has been answered after three lookups.
C13_Witness ==
    \E h \in Handlers :
        /\ pc[h] = "done"
        /\ pairsParam[h] = <<>>
        /\ Len(trail[h]) = 3
        /\ response[h].status = 200

\* The pieces of s between its commas.
RECURSIVE CommaPieces(_)
CommaPieces(s) ==
    IF \E i \in 1..Len(s) : s[i] = ","
    THEN LET i == CHOOSE j \in 1..Len(s) :
                     s[j] = "," /\ \A k \in 1..(j - 1) : s[k] # ","
         IN <<SubSeq(s, 1, i - 1)>> \o CommaPieces(SubSeq(s, i + 1, Len(s)))
    ELSE <<s>>

\* t without the characters of ws at its two ends.
RECURSIVE Strip(_, _)
Strip(t, ws) ==
    IF t # <<>> /\ t[1] \in ws THEN Strip(Tail(t), ws)
    ELSE IF t # <<>> /\ t[Len(t)] \in ws THEN Strip(SubSeq(t, 1, Len(t) - 1), ws)
    ELSE t

\* The tokens of s with the whitespace around them removed.
WhitespaceTrimmed(s) ==
    [i \in 1..Len(CommaPieces(s)) |-> Strip(CommaPieces(s)[i], {" ", "\t"})]

\* Two non-empty pairs values that differ only in whitespace around tokens.
SameUpToWhitespace(a, b) ==
    /\ a # <<>>
    /\ b # <<>>
    /\ WhitespaceTrimmed(a) = WhitespaceTrimmed(b)

\* C14: two pairs values that differ only in the whitespace, spaces or tabs,
\* around their tokens resolve to the same currency list.
C14_WhitespaceAroundTokensIgnored ==
    \A h \in Handlers :
        pc[h] # "idle" =>
            \A other \in ResolverInputs :
                SameUpToWhitespace(pairsParam[h], other) =>
                    resolveCurrencies(other) = currencies[h]

\* What follows the first '/' of a token; nothing when it has no '/'.
AfterFirstSlash(t) ==
    IF \E i \in 1..Len(t) : t[i] = "/"
    THEN LET i == CHOOSE j \in 1..Len(t) :
                     t[j] = "/" /\ \A k \in 1..(j - 1) : t[k] # "/"
         IN SubSeq(t, i + 1, Len(t))
    ELSE <<>>

\* The currencies of a list of tokens: what follows the first '/' of each
\* token that has something there, in the order of the tokens.
RECURSIVE Extracted(_)
Extracted(tokens) ==
    IF tokens = <<>>
    THEN <<>>
    ELSE IF AfterFirstSlash(Head(tokens)) # <<>>
         THEN <<AfterFirstSlash(Head(tokens))>> \o Extracted(Tail(tokens))
         ELSE Extracted(Tail(tokens))

\* C15: for a non-empty pairs value, the resolved list holds, for each token
\* in turn, what follows its first '/'; a token with no '/' or with nothing
\* after it adds no currency and no error, ErrorsCount, KrakenCalls and
\* ErrorMessage are as if it were not there, and the default list is not used.
C15_MalformedTokensVanish ==
    \A h \in Handlers :
        (pc[h] # "idle" /\ pairsParam[h] # <<>>) =>
            /\ currencies[h] = Extracted(splitPairs(pairsParam[h]))
            /\ (pc[h] = "loop" /\ idx[h] = 1) =>
                  errorsCount[h] = 0 /\ lastError[h] = <<>>
            /\ (pc[h] = "done" /\ trail[h] = <<>>) =>
                  /\ result[h].ErrorsCount = 0
                  /\ result[h].KrakenCalls = Len(Extracted(splitPairs(pairsParam[h])))
                  /\ result[h].ErrorMessage = <<>>
                  /\ result[h].Prices = <<>>

\* A request whose pairs value has a token without '/', a token ending in
\* '/' and a well-formed token has resolved to the one currency.
C15_Witness ==
    \E h \in Handlers :
        /\ pc[h] = "loop"
        /\ pairsParam[h] = <<"B", ",", "/", "U">>
        /\ currencies[h] = << <<"U">> >>
        /\ errorsCount[h] = 0

\* How many times x occurs in seq.
Occurrences(seq, x) == Cardinality({ i \in 1..Len(seq) : seq[i] = x })

\* The currencies of the lookups of t, in order.
LookedUp(t) == [i \in 1..Len(t) |-> t[i].currency]

\* The pairs of the entries of a success list, in order.
PairsOf(ps) == [i \in 1..Len(ps) |-> ps[i].Pair]

\* C16: the resolved list keeps the order of the tokens and their repetitions:
\* a pair given k times is k times in the list, is looked up k times, counts k
\* times in KrakenCalls, and has one entry per successful lookup.
C16_DuplicatesKept ==
    \A h \in Handlers :
        (pc[h] # "idle" /\ pairsParam[h] # <<>>) =>
            LET wanted == Extracted(WhitespaceTrimmed(pairsParam[h]))
            IN /\ currencies[h] = wanted
               /\ \A c \in Range(wanted) :
                     Occurrences(currencies[h], c) = Occurrences(wanted, c)
               /\ pc[h] = "done" =>
                     /\ LookedUp(trail[h]) = wanted
                     /\ result[h].KrakenCalls = Len(wanted)
                     /\ \A c \in Range(wanted) :
                           Occurrences(PairsOf(result[h].Prices),
                                       <<"B", "T", "C", "/">> \o c)
                             = Cardinality({ i \in 1..Len(trail[h]) :
                                   trail[h][i].currency = c /\ ~Failed(trail[h][i]) })

\* BTC/USD was asked for twice, was looked up twice, and is twice in the
\* response, with the different prices the two lookups obtained.
C16_Witness ==
    \E h \in Handlers :
        /\ pc[h] = "done"
        /\ currencies[h] = << <<"U", "S", "D">>, <<"U", "S", "D">> >>
        /\ Len(trail[h]) = 2
        /\ result[h].KrakenCalls = 2
        /\ Len(response[h].ltp) = 2
        /\ response[h].ltp[1].Pair = response[h].ltp[2].Pair
        /\ response[h].ltp[1].Amount # response[h].ltp[2].Amount

\* The last lookup of t that failed.
LastFailed(t) ==
    t[CHOOSE i \in 1..Len(t) :
          Failed(t[i]) /\ \A j \in (i + 1)..Len(t) : ~Failed(t[j])]

\* The message GetPrices forms for a failed lookup: "BTC/<currency>: <error>".
MessageOf(lookup) ==
    <<"B", "T", "C", "/">> \o lookup.currency \o <<":", " ">> \o lookup.ret.err

\* C17: after a batch, ErrorMessage is the message of the last pair that
\* failed, naming that pair; it is empty exactly when ErrorsCount is 0.
C17_LastErrorMessageKept ==
    \A h \in Handlers :
        /\ pc[h] \in {"loop", "done"} =>
              lastError[h] = IF NumFailed(trail[h]) = 0
                             THEN <<>>
                             ELSE MessageOf(LastFailed(trail[h]))
        /\ pc[h] = "done" =>
              /\ result[h].ErrorMessage = lastError[h]
              /\ (result[h].ErrorMessage = <<>>) <=> (result[h].ErrorsCount = 0)

\* Two pairs failed with different errors, and the message is the second's.
C17_Witness ==
    \E h \in Handlers :
        /\ pc[h] = "done"
        /\ Len(trail[h]) = 2
        /\ Failed(trail[h][1]) /\ Failed(trail[h][2])
        /\ trail[h][1].currency # trail[h][2].currency
        /\ trail[h][1].ret.err # trail[h][2].ret.err
        /\ result[h].ErrorMessage = MessageOf(trail[h][2])
        /\ result[h].ErrorMessage # MessageOf(trail[h][1])

\* C19: within a batch the lookups are made one at a time and in list order:
\* a lookup starts only when the lookups of all earlier positions are over,
\* the lookup in progress is that of the first position not yet looked up,
\* and each step ends at most the one lookup in progress.
C19_OneLookupAtATime ==
    [][\A h \in Handlers :
          /\ (pc[h] = "loop" /\ (pc'[h] = "fetch" \/ trail'[h] # trail[h])) =>
                idx[h] = Len(trail[h]) + 1
          /\ pc'[h] \in {"fetch", "save"} =>
                /\ idx'[h] = Len(trail'[h]) + 1
                /\ idx'[h] <= Len(currencies'[h])
          /\ trail'[h] # trail[h] =>
                /\ pc[h] \in {"loop", "fetch", "save"}
                /\ trail'[h] = Append(trail[h], Last(trail'[h]))
                /\ Last(trail'[h]).currency = currencies[h][idx[h]]
                /\ idx'[h] = idx[h] + 1
                /\ pc'[h] = "loop"]_vars

\* The Kraken request for the second currency is in progress, after the
\* lookup of the first one ended.
C19_Witness ==
    \E h \in Handlers :
        /\ pc[h] = "fetch"
        /\ idx[h] = 2
        /\ Len(trail[h]) = 1
        /\ Len(currencies[h]) = 3

\* The Kraken requests the service has made that have been answered.
RequestsAnswered ==
    metrics.kraken_api_calls_total + metrics.kraken_api_errors_total

\* C18: a lookup sends at most one request to Kraken, whatever error it gets
\* back, and that error ends the lookup; so a batch over N currencies sends at
\* most N requests.
C18_NoRetry ==
    \A h \in Handlers :
        /\ look[h].requests <= 1
        /\ pc[h] = "fetch" => look[h].requests = 0
        /\ RequestsAnswered <= Len(currencies[h])
        /\ RequestsAnswered <= Len(trail[h]) + (IF pc[h] = "save" THEN 1 ELSE 0)
        /\ (LookupComplete(h) /\ look[h].up.err # <<>>) =>
              /\ look[h].requests = 1
              /\ Last(trail[h]).ret = [price |-> 0, err |-> look[h].up.err]

\* A batch of three is over after three requests, each answered with an error
\* of another kind.
C18_Witness ==
    \E h \in Handlers :
        /\ pc[h] = "done"
        /\ Len(trail[h]) = 3
        /\ trail[h][1].ret.err = <<"failed to make request">>
        /\ trail[h][2].ret.err = <<"failed to parse response">>
        /\ trail[h][3].ret.err = <<"no price data found">>
        /\ RequestsAnswered = 3
        /\ look[h].requests = 1

\* C20: once the context of a request is cancelled, the batch starts no
\* lookup for a further currency.
C20_NoLookupAfterCancel ==
    [][\A h \in Handlers : cancelled[h] => ~CacheReadStep(h)]_vars

\* The writes of w that went to key, in the order the backend applied them.
RECURSIVE WritesTo(_, _)
WritesTo(w, key) ==
    IF w = <<>>
    THEN <<>>
    ELSE IF Last(w).key = key
         THEN Append(WritesTo(SubSeq(w, 1, Len(w) - 1), key), Last(w))
         ELSE WritesTo(SubSeq(w, 1, Len(w) - 1), key)

\* C11: however concurrent lookups of a key interleave, the record a lookup
\* reads from the cache is, price and timestamp together, the record of one
\* write, and the record the backend holds is always that of the write it
\* applied last, in particular when every writer is done.
C11_ReadsAreWholeWrites ==
    [][/\ \A h \in ConcHandlers :
             (CacheReadStep(h) /\ look'[h].cache = "hit") =>
                 LET key == PriceKey(currencies[h][idx[h]])
                 IN \E i \in 1..Len(writes) :
                       /\ writes[i].key = key
                       /\ writes[i].data = store[key].data
                       /\ Last(trail'[h]).ret =
                             [price |-> writes[i].data.price, err |-> <<>>]
       /\ \A key \in DOMAIN store' :
             /\ WritesTo(writes', key) # <<>>
             /\ store'[key].data = Last(WritesTo(writes', key)).data]_vars

\* Two lookups wrote different records under the same key, at different
\* times, and a later lookup was served the record written last.
C11_Witness ==
    \E h \in ConcHandlers :
        /\ \A o \in ConcHandlers : pc[o] = "done"
        /\ Len(writes) = 2
        /\ writes[1].key = writes[2].key
        /\ writes[1].data.price # writes[2].data.price
        /\ writes[1].data.timestamp # writes[2].data.timestamp
        /\ look[h].cache = "hit"
        /\ Last(trail[h]).ret = [price |-> writes[2].data.price, err |-> <<>>]
        /\ store[writes[2].key].data = writes[2].data

\* The handlers whose lookup in progress is at the given point.
HandlersAt(point) == { h \in ConcHandlers : pc[h] = point }

\* C12: concurrent requests that miss on the same key each make their own
\* Kraken request and their own cache write: every miss is followed by a
\* request of that lookup, the lookup returns what its own request returned,
\* every fetched price is written, and when all are done after a successful
\* fetch the backend has a record under the key, there to be read until the
\* expiry of the last write.
C12_EveryMissFetchesAndWrites ==
    /\ metrics.cache_misses_total = RequestsAnswered + Cardinality(HandlersAt("fetch"))
    /\ Len(writes) = metrics.kraken_api_calls_total - Cardinality(HandlersAt("save"))
    /\ \A h \in ConcHandlers :
          (LookupComplete(h) /\ look[h].cache \in {"absent", "stale", "error"}) =>
              /\ look[h].called
              /\ look[h].requests = 1
              /\ Last(trail[h]).ret = look[h].up
              /\ look[h].up.err = <<>> => look[h].write = "ok"
    /\ ((\A h \in ConcHandlers : pc[h] = "done")
          /\ metrics.kraken_api_calls_total >= 1) =>
              /\ PriceKey(<<"U", "S", "D">>) \in DOMAIN store
              /\ store[PriceKey(<<"U", "S", "D">>)].data.json
              /\ now - Last(writes).data.timestamp <= 60 =>
                    now <= store[PriceKey(<<"U", "S", "D">>)].expireAt

\* Both requests missed on the key before either had written it, each made
\* its own Kraken request and got its own price, both wrote, and the key
\* holds a record.
C12_Witness ==
    /\ \A h \in ConcHandlers :
          /\ Len(trail[h]) = 1
          /\ look[h].cache = "absent"
          /\ look[h].called
          /\ look[h].write = "ok"
    /\ trail["h1"][1].ret.price # trail["h2"][1].ret.price
    /\ trail["h1"][1].ret.err = <<>>
    /\ trail["h2"][1].ret.err = <<>>
    /\ metrics.kraken_api_calls_total = 2
    /\ Len(writes) = 2
    /\ PriceKey(<<"U", "S", "D">>) \in DOMAIN store

\* C25: GET /ready answers "ready" only if the database and Redis are both
\* reachable at that moment, and answers 503 "not ready" if either is not,
\* also when the database could not be reached at startup.
C25_ReadyOnlyIfBothReachable ==
    [][ready'.n # ready.n =>
          IF dbUp /\ redisUp
          THEN ready'.code = 200 /\ ready'.status = "ready"
          ELSE ready'.code = 503 /\ ready'.status = "not ready"]_vars

\* C21: every batch request eventually completes and returns a result,
\* also when the upstream source or the cache backend never responds.
C21_EveryBatchCompletes ==
    \A h \in Handlers : (pc[h] = "loop") ~> (pc[h] = "done")

\* The records of the request of h, waiting to be written or written.
RecordsOf(h) ==
    { reqLog \in logQueue \cup request_logs : reqLog.RequestID = requestID[h] }

\* C22: the status and the body of a batch response are determined by the
\* lookups alone, whatever the state of the audit sink; the response is
\* written while the audit record is still waiting, and nothing the sink does
\* afterwards changes it.
C22_AuditIsFireAndForget ==
    [][\A h \in Handlers :
          /\ (pc[h] = "loop" /\ pc'[h] = "done") =>
                /\ response'[h].status =
                      (IF NumFailed(trail[h]) > 0
                          /\ Len(SuccessEntries(trail[h])) = 0
                       THEN 503 ELSE 200)
                /\ response'[h].ltp = SuccessEntries(trail[h])
                /\ request_logs' = request_logs
                /\ \E reqLog \in logQueue' : reqLog.RequestID = requestID[h]
          /\ pc[h] = "done" => response'[h] = response[h]]_vars

\* A partial failure was answered with 200 and its prices by a service whose
\* database is open but down, and the audit record was then lost.
C22_Witness ==
    \E h \in Handlers :
        /\ pc[h] = "done"
        /\ db = "open"
        /\ ~dbUp
        /\ logQueue = {}
        /\ request_logs = {}
        /\ response[h].status = 200
        /\ NumFailed(trail[h]) >= 1
        /\ Len(response[h].ltp) >= 1

\* C23: the audit record of a batch request carries the status sent, an
\* error flag that is true iff ErrorsCount > 0, an error message that is
\* non-empty iff the flag is true, and the number of resolved pairs as
\* kraken_calls.
C23_AuditRecordMatchesResponse ==
    \A h \in Handlers :
        /\ pc[h] # "done" => RecordsOf(h) = {}
        /\ \A reqLog \in RecordsOf(h) :
              /\ reqLog.StatusCode = response[h].status
              /\ reqLog.ErrorOccurred = (result[h].ErrorsCount > 0)
              /\ reqLog.ErrorOccurred = (NumFailed(trail[h]) > 0)
              /\ (reqLog.ErrorMessage # <<>>) = reqLog.ErrorOccurred
              /\ reqLog.KrakenCalls = Len(resolveCurrencies(pairsParam[h]))
              /\ reqLog.PairsRequested = pairsParam[h]

\* The table holds the record of a partial failure answered with 200: the
\* error flag is set, the message is there, and kraken_calls is 3.
C23_Witness ==
    \E reqLog \in request_logs :
        /\ reqLog.StatusCode = 200
        /\ reqLog.ErrorOccurred
        /\ reqLog.ErrorMessage # <<>>
        /\ reqLog.KrakenCalls = 3
        /\ \E h \in Handlers :
              /\ reqLog.RequestID = requestID[h]
              /\ Len(response[h].ltp) \in 1..2

\* The requests handled so far.
Handled == { h \in ConcHandlers : pc[h] = "done" }

\* C24: the requests received have request IDs that differ from one another,
\* the record of a request carries the ID its handler got, the records written
\* never outnumber the requests handled and have distinct IDs, and the record
\* of every handled request is eventually in the table: N handled requests
\* end with N records.
C24_OneRecordPerRequest ==
    /\ [](/\ \A g, h \in ConcHandlers :
                (g # h /\ pc[g] # "idle" /\ pc[h] # "idle")
                    => requestID[g] # requestID[h]
          /\ \A reqLog \in logQueue \cup request_logs :
                \E h \in Handled : reqLog.RequestID = requestID[h]
          /\ Cardinality(logQueue) + Cardinality(request_logs)
                = Cardinality(Handled)
          /\ Cardinality({ reqLog.RequestID : reqLog \in request_logs })
                = Cardinality(request_logs))
    /\ \A h \in ConcHandlers :
          (pc[h] = "done") ~>
              (\E reqLog \in request_logs : reqLog.RequestID = requestID[h])
    /\ (\A h \in ConcHandlers : pc[h] = "done") ~>
          (Cardinality(request_logs) = Cardinality(ConcHandlers))

\* Two requests that differ in nothing but their IDs were handled, and the
\* table holds two records.
C24_Witness ==
    /\ \A h \in ConcHandlers : pc[h] = "done"
    /\ pairsParam["h1"] = pairsParam["h2"]
    /\ response["h1"] = response["h2"]
    /\ logQueue = {}
    /\ Cardinality(request_logs) = 2
    /\ \E a, b \in request_logs :
          /\ a.RequestID # b.RequestID
          /\ [a EXCEPT !.RequestID = 0] = [b EXCEPT !.RequestID = 0]

\* The exchange had a body, parsed or not.
Answered(resp) == resp.sent

\* The result of the response holds no price element at all.
NoPriceElement(resp) ==
    \A sym \in DOMAIN resp.result : resp.result[sym] = <<>>

\* The lookup in progress failed with the message msg and gave no price: it
\* was not written to the cache and, once returned, it is a failure of the
\* batch.
FailedWith(h, msg) ==
    /\ look[h].up = [price |-> 0, err |-> <<msg>>]
    /\ look[h].write = "none"
    /\ pc[h] # "save"
    /\ LookupComplete(h) =>
          /\ Last(trail[h]).ret = [price |-> 0, err |-> <<msg>>]
          /\ errorsCount[h] >= 1

\* C26: a body that cannot be parsed is a protocol error; otherwise a
\* non-empty error list is an upstream rejection whatever the result holds;
\* otherwise a result that is empty or holds no price element is a no-data
\* error; each is a failure of the pair and never a price.
C26_UpstreamAnswerClassified ==
    \A h \in Handlers :
        (look[h].called /\ Answered(look[h].resp)) =>
            LET resp == look[h].resp
            IN IF ~resp.json
               THEN FailedWith(h, "failed to parse response")
               ELSE IF resp.error # <<>>
               THEN FailedWith(h, "kraken API error")
               ELSE NoPriceElement(resp) =>
                       FailedWith(h, "no price data found")

\* A lookup failed as rejected by Kraken although the answer carried, beside
\* its error list, a result with a price.
C26_Witness ==
    \E h \in Handlers :
        /\ LookupComplete(h)
        /\ look[h].called
        /\ look[h].resp.json
        /\ look[h].resp.error # <<>>
        /\ ~NoPriceElement(look[h].resp)
        /\ Last(trail[h]).ret.err = <<"kraken API error">>

\* The number a price string of the quotes stands for.
QuotedValue(str) ==
    CASE str = <<"0">> -> 0
      [] str = <<"1">> -> 1
      [] str = <<"2">> -> 2
      [] str = <<"-", "1">> -> 0 - 1

\* The symbol of the pair asked for is in the result, with a price string of
\* the quotes as the first element of its array.
WellFormedFor(resp, currency) ==
    /\ resp.sent
    /\ resp.json
    /\ resp.error = <<>>
    /\ (<<"X", "B", "T">> \o currency) \in DOMAIN resp.result
    /\ resp.result[<<"X", "B", "T">> \o currency] # <<>>
    /\ resp.result[<<"X", "B", "T">> \o currency][1]
          \in { <<"0">>, <<"1">>, <<"2">>, <<"-", "1">> }

\* C27: for a well-formed response the price returned for a currency is the
\* first element of the array under that currency's own pair symbol, also
\* when the result holds more than one symbol.
C27_PriceIsOwnSymbolsFirstElement ==
    \A h \in Handlers :
        (/\ look[h].called
         /\ pc[h] # "idle"
         /\ Len(trail[h]) >= 1 \/ pc[h] = "save"
         /\ WellFormedFor(look[h].resp,
                           IF pc[h] = "save" THEN currencies[h][idx[h]]
                           ELSE Last(trail[h]).currency)) =>
            LET currency == IF pc[h] = "save" THEN currencies[h][idx[h]]
                            ELSE Last(trail[h]).currency
            IN look[h].up =
                 [price |-> QuotedValue(
                               look[h].resp.result[<<"X", "B", "T">> \o currency][1]),
                  err |-> <<>>]

\* C28: every price a successful lookup returns, and every price in a cached
\* quote, is strictly positive.
C28_PricesArePositive ==
    /\ \A h \in Handlers : \A i \in 1..Len(trail[h]) :
          trail[h][i].ret.err = <<>> => trail[h][i].ret.price > 0
    /\ \A h \in Handlers : \A i \in 1..Len(prices[h]) :
          prices[h][i].Amount > 0
    /\ \A key \in DOMAIN store :
          (store[key].by = "app" /\ store[key].data.json)
              => store[key].data.price > 0

\* C29: GetPrices returns a Prices list that is not nil, and the "ltp" field
\* of the response is a list, never null, for every input.
C29_LtpIsAlwaysAList ==
    \A h \in Handlers :
        pc[h] = "done" =>
            /\ ~isNil(result[h].Prices)
            /\ ~response[h].null

\* addr with its trailing ":port" removed: what precedes its last colon,
\* and addr itself when it has none.
WithoutPort(addr) ==
    IF \E i \in 1..Len(addr) : addr[i] = ":"
    THEN CHOOSE ip \in { SubSeq(addr, 1, n) : n \in 0..Len(addr) } :
            \E port \in { SubSeq(addr, n, Len(addr)) : n \in 1..(Len(addr) + 1) } :
                /\ addr = ip \o <<":">> \o port
                /\ \A i \in 1..Len(port) : port[i] # ":"
    ELSE addr

\* C30: the client IP recorded for a request is the first comma-separated
\* entry of X-Forwarded-For, trimmed, if that header is not empty; else
\* X-Real-IP if not empty; else RemoteAddr without its trailing ":port".
C30_ClientIPByPrecedence ==
    \A h \in Handlers : \A reqLog \in RecordsOf(h) :
        reqLog.UserIP =
            IF r[h].XForwardedFor # <<>>
            THEN Strip(CommaPieces(r[h].XForwardedFor)[1], {" ", "\t", "\n", "\r"})
            ELSE IF r[h].XRealIP # <<>>
            THEN r[h].XRealIP
            ELSE WithoutPort(r[h].RemoteAddr)

\* The table holds the record of a request that carried an X-Forwarded-For
\* of two entries with a space before the first, an X-Real-IP and a remote
\* address with a port: the first entry was recorded.
C30_Witness ==
    \E h \in Handlers : \E reqLog \in request_logs :
        /\ reqLog.RequestID = requestID[h]
        /\ r[h].XForwardedFor = <<" ", "1", ",">>
        /\ r[h].XRealIP = <<"2">>
        /\ r[h].RemoteAddr = <<"3", ":", "3">>
        /\ reqLog.UserIP = <<"1">>

\* The requests sent to Kraken so far, answered with a price or with an error.
UpstreamCalls ==
    metrics.kraken_api_calls_total + metrics.kraken_api_errors_total

\* C31: the KrakenCalls value reported for a batch, and audited as
\* kraken_calls, is the number of upstream calls made while serving it; a
\* batch served from the cache reports 0.
C31_KrakenCallsAreTheCallsMade ==
    \A h \in Handlers :
        pc[h] = "done" =>
            /\ result[h].KrakenCalls = UpstreamCalls
            /\ \A reqLog \in RecordsOf(h) : reqLog.KrakenCalls = UpstreamCalls

\* The record of the latest write of this service to key.
LatestWrite(key) == Last(WritesTo(writes, key))

\* The step is a cache hit of h on an entry this service wrote.
HitOnOwnEntry(h) ==
    /\ CacheReadStep(h)
    /\ look'[h].cache = "hit"
    /\ cacheKey(currencies[h][idx[h]]) \in DOMAIN store
    /\ store[cacheKey(currencies[h][idx[h]])].by = "app"

\* C32: a price a lookup returns at time t was obtained from the upstream
\* source strictly later than t - 60, also when time passed between the end
\* of the fetch and the cache write that stamped the quote.
C32_ServedQuoteObtainedWithinAMinute ==
    [][\A h \in Handlers :
          HitOnOwnEntry(h) =>
              LET w == LatestWrite(cacheKey(currencies[h][idx[h]]))
              IN /\ w.data = store[cacheKey(currencies[h][idx[h]])].data
                 /\ Last(trail'[h]).ret.price = w.data.price
                 /\ w.obtained > now - FreshWindow]_vars

\* C33: under concurrent lookups of one key the cache does not go back: once
\* a quote obtained at t2 has been written, no later write puts under the key
\* a quote obtained at an earlier time t1 < t2 with a later timestamp.
C33_CacheNeverRegresses ==
    \A i, j \in 1..Len(writes) :
        (/\ i < j
         /\ writes[i].key = writes[j].key
         /\ writes[j].data.timestamp > writes[i].data.timestamp)
            => writes[j].obtained >= writes[i].obtained

\* The step is the cache check of h finding nothing to serve.
MissStep(h) == pc[h] = "loop" /\ pc'[h] = "fetch"

\* The step is the Kraken request of h failing, which ends the lookup.
FailedFetchStep(h) ==
    /\ pc[h] = "fetch"
    /\ pc'[h] = "loop"
    /\ Last(trail'[h]).ret.err # NilErr

\* C34: a lookup whose upstream fetch fails leaves the cache as it was: it
\* writes no entry, and neither deletes nor changes an entry under its key
\* or any other, stale or unreadable ones included.
C34_FailedLookupLeavesCacheAlone ==
    [][\A h \in Handlers :
          (MissStep(h) \/ FailedFetchStep(h)) =>
              store' = store /\ writes' = writes]_vars

\* A lookup found an unreadable entry under its key, failed upstream, and the
\* entry is still there, the only one, with nothing written.
C34_Witness ==
    \E h \in Handlers :
        /\ LookupComplete(h)
        /\ look[h].cache = "error"
        /\ look[h].called
        /\ look[h].up.err # NilErr
        /\ Failed(Last(trail[h]))
        /\ redisUp
        /\ writes = <<>>
        /\ DOMAIN store = { cacheKey(Last(trail[h]).currency) }
        /\ store[cacheKey(Last(trail[h]).currency)].data = Garbage

\* The step is the cache check of h serving the entry under its key.
HitStep(h) == CacheReadStep(h) /\ look'[h].cache = "hit"

\* C35: a cache hit leaves the cache as it was: the entry is not rewritten and
\* neither its timestamp nor its expiry moves, so a quote this service cached
\* is served less than 60 s after it was written however often it is read.
C35_HitLeavesCacheAlone ==
    [][\A h \in DOMAIN pc :
          HitStep(h) =>
              LET key == cacheKey(currencies[h][idx[h]])
              IN /\ store' = store
                 /\ writes' = writes
                 /\ store[key].by = "app" =>
                        /\ store[key].data = LatestWrite(key).data
                        /\ store[key].expireAt =
                               LatestWrite(key).data.timestamp + CacheTTL
                        /\ now - LatestWrite(key).data.timestamp < FreshWindow]_vars

\* One write, read three times since, the last time 30 s or more after it;
\* the key holds the record of that write with the expiry it was given.
C35_Witness ==
    /\ Len(writes) = 1
    /\ metrics.cache_hits_total = 3
    /\ \A h \in DOMAIN pc : LookupComplete(h) /\ look[h].cache = "hit"
    /\ now - writes[1].data.timestamp >= 30
    /\ now - writes[1].data.timestamp < FreshWindow
    /\ writes[1].key \in DOMAIN store
    /\ store[writes[1].key].data = writes[1].data
    /\ store[writes[1].key].expireAt = writes[1].data.timestamp + CacheTTL

\* The quote currency of the one pair h was asked for.
QuoteOf(h) == AfterFirstSlash(pairsParam[h])

\* C36: the base of a token is ignored: for a token "X/Q" with any base X,
\* the empty one included, the lookup is that of Q alone: it uses the cache
\* key "price:BTC/Q" and the upstream symbol of BTC and Q, and a success is
\* reported as "BTC/Q", so that "ETH/USD" gives the entry "BTC/USD" gives.
C36_BaseIsIgnored ==
    \A h \in Handlers :
        pc[h] # "idle" =>
            /\ currencies[h] = <<QuoteOf(h)>>
            /\ \A i \in 1..Len(trail[h]) : trail[h][i].currency = QuoteOf(h)
            /\ DOMAIN store \subseteq { PriceKey(QuoteOf(h)) }
            /\ \A i \in 1..Len(writes) : writes[i].key = PriceKey(QuoteOf(h))
            /\ DOMAIN look[h].resp.result
                   \subseteq { <<"X", "B", "T">> \o QuoteOf(h) }
            /\ \A i \in 1..Len(prices[h]) :
                   prices[h][i].Pair = <<"B", "T", "C", "/">> \o QuoteOf(h)
            /\ pc[h] = "done" =>
                   \A i \in 1..Len(response[h].ltp) :
                       response[h].ltp[i].Pair = <<"B", "T", "C", "/">> \o QuoteOf(h)

\* The request for "ETH/USD" is answered with the one entry "BTC/USD", its
\* price fetched under XBTUSD and cached under price:BTC/USD.
C36_Witness ==
    \E h \in Handlers :
        /\ pc[h] = "done"
        /\ pairsParam[h] = <<"E", "T", "H", "/", "U", "S", "D">>
        /\ Len(response[h].ltp) = 1
        /\ response[h].ltp[1].Pair = <<"B", "T", "C", "/", "U", "S", "D">>
        /\ DOMAIN look[h].resp.result = { <<"X", "B", "T", "U", "S", "D">> }
        /\ look[h].write = "ok"
        /\ DOMAIN store = { PriceKey(USD) }
        /\ response[h].ltp[1].Amount = store[PriceKey(USD)].data.price

\* The number of lookups the handlers of S have completed.
RECURSIVE CompletedLookups(_)
CompletedLookups(S) ==
    IF S = {}
    THEN 0
    ELSE LET h == CHOOSE x \in S : TRUE
         IN Len(trail[h]) + CompletedLookups(S \ {h})

\* The handlers whose lookup in progress is past its cache check, at one of
\* the given points.
PastCacheCheck(points) == { h \in DOMAIN pc : pc[h] \in points }

\* C37: the counters add up: after any sequence of lookups the hits and the
\* misses together are the completed lookups, and the misses are the upstream
\* calls that succeeded and those that failed together.  While a lookup is
\* between its cache check and its return, it is a miss not yet completed,
\* and before the end of its fetch a miss not yet counted as call or error.
C37_CountersAddUp ==
    /\ metrics.cache_hits_total + metrics.cache_misses_total
          = CompletedLookups(DOMAIN pc)
              + Cardinality(PastCacheCheck({"fetch", "save"}))
    /\ metrics.cache_misses_total
          = metrics.kraken_api_calls_total + metrics.kraken_api_errors_total
              + Cardinality(PastCacheCheck({"fetch"}))

\* A finished batch of three lookups: one served from the cache, one fetched,
\* one failed.
C37_Witness ==
    /\ \A h \in DOMAIN pc : pc[h] = "done"
    /\ metrics.cache_hits_total = 1
    /\ metrics.kraken_api_calls_total = 1
    /\ metrics.kraken_api_errors_total = 1
    /\ metrics.cache_misses_total = 2
    /\ CompletedLookups(DOMAIN pc) = 3

\* C38: the cache_hit flag recorded for a batch is true only if at least one
\* of its pairs was served from the cache; it is false when every price
\* returned came from the upstream source.
C38_CacheHitFlagMeansAHit ==
    \A h \in Handlers :
        \A reqLog \in RecordsOf(h) :
            reqLog.CacheHit => metrics.cache_hits_total >= 1

\* C39: after an InitRedis that could not reach Redis the service goes on
\* without cache: its lookups are those of a service with no cache client,
\* which send Redis neither a read nor a write and go straight upstream.
C39_NoCacheAfterFailedStartup ==
    /\ writes = <<>>
    /\ \A h \in Handlers :
          /\ look[h].cache \in {"none", "nil"}
          /\ look[h].write \in {"none", "nil"}

====
